---- MODULE Spec2Model ----
(***************************************************************************)
(* BrowserNavigationAgent.executeSubTask: the bounded observe -> decide -> *)
(* act -> verify loop of src/src/agents/BrowserNavigationAgent.ts.         *)
(*                                                                         *)
(* The loop is strictly sequential: it blocks on the distiller, the LLM,   *)
(* the executor and the observer in turn.  One action of this module is    *)
(* one path through one loop iteration (or through the precheck); the      *)
(* answers of the collaborators met on that path are its inputs.           *)
(*                                                                         *)
(* Strings are sequences of words; String.includes is containment of a     *)
(* contiguous run of words; toLowerCase maps the capitalised words used.   *)
(***************************************************************************)
EXTENDS Integers, Sequences, FiniteSets, TLC

VARIABLES
    env,                  \* config.maxStepsPerSubtask and what the collaborators may answer
    subtask,              \* the SubTask handed to executeSubTask
    chosenMode,           \* const mode of line 210 ("none" before it is chosen)
    pc,                   \* "start" | "loop" | "done"
    step,                 \* loop variable of the for statement
    steps,                \* steps: ActionResult[]
    retryCount,
    consecutiveFailures,
    sameStateCount,
    lastStateHash,
    actionHistory,        \* ActionAttempt[]
    result,               \* the SubTaskResult returned (NoResult while running)
    calls,                \* history: how often each collaborator was called
    last,                 \* history: what the latest iteration met and did
    prevFp,               \* history: the fingerprint of the previous loop-top distill
    fpChanged,            \* history: some distill of the run saw the page differ
    totalTokens,          \* BrowserNavigationAgent.totalTokens
    tokensAtStart,        \* const tokensAtStart of line 206
    observer,             \* ChangeObserver: this.observer is set
    state,                \* ChangeObserver: this.state (NoState for null)
    liveObservers,        \* how many MutationObservers are connected to document.body
    document,             \* what document.location.href and document.title read
    report,               \* the ChangeReport of the latest stopObserving
    obsLast,              \* history: the latest observer call and its window
    distiller,            \* which distiller this is: "dom" (DOMDistiller) or "playwright"
    page,                 \* the elements of the document, in document order
    elementIndex,         \* DOMDistiller.elementIndex
    elementMap,           \* the elements indexed by the latest distill, by index
    view,                 \* the DistilledDOM returned by the latest distill
    marks,                \* the data-agent-index attribute of each element of the page
    pending,              \* the index a decision chose from a view, until it is acted on
    dstLast,              \* history: the latest distiller call
    task                  \* WebAgent: isRunning, shouldStop and where execute() is

agentVars == <<env, subtask, chosenMode, pc, step, steps, retryCount, consecutiveFailures,
               sameStateCount, lastStateHash, actionHistory, result, calls, last,
               prevFp, fpChanged, totalTokens, tokensAtStart>>

observerVars == <<observer, state, liveObservers, document, report, obsLast>>

distillerVars == <<distiller, page, elementIndex, elementMap, view, marks, pending,
                   dstLast>>

taskVars == <<task>>

vars == <<agentVars, observerVars, distillerVars, taskVars>>

----------------------------------------------------------------------------
(* Bounds and program constants *)

\* config.maxStepsPerSubtask of the two configurations explored
MaxStepsWide == 3

MaxStepsDeep == 5

\* faulty variant: the stagnation check fires one step late
NoProgressLimitLate == 4 + 1

NoProgressLimit == 4

\* faulty variant: the failure breaker trips one failure late
MaxConsecutiveFailuresLate == 3 + 1

MaxConsecutiveFailures == 3

RecentActions == 3

----------------------------------------------------------------------------
(* Strings *)

LowerWord(w) ==
    CASE w = "Click" -> "click"
      [] w = "Login" -> "login"
      [] w = "Read"  -> "read"
      [] w = "URL"   -> "url"
      [] w = "A"     -> "a"
      [] w = "No"    -> "no"
      [] w = "Yes"   -> "yes"
      [] w = "New"   -> "new"
      [] w = "Text"  -> "text"
      [] OTHER       -> w

ToLowerCase(s) == [i \in DOMAIN s |-> LowerWord(s[i])]

Includes(s, sub) ==
    \E i \in 0..Len(s) :
        /\ i + Len(sub) <= Len(s)
        /\ \A j \in 1..Len(sub) : s[i + j] = sub[j]

Last(s) == s[Len(s)]

----------------------------------------------------------------------------
(* The environment: subtasks, pages, LLM answers, executor results *)

Subtasks == {
    [id |-> "t1", description |-> <<"Click", "search", "button">>,
     action |-> <<"click">>, verification |-> <<>>, value |-> <<>>],
    [id |-> "t2", description |-> <<"Login", "to", "account">>,
     action |-> <<"login">>, verification |-> <<>>, value |-> <<>>],
    [id |-> "t3", description |-> <<"Read", "the", "price">>,
     action |-> <<"extract">>, verification |-> <<"URL", "contains", "cart">>,
     value |-> <<"cart">>] }

Home == <<"shop", "home">>
Cart == <<"shop", "cart">>

Doms == { [url |-> Home, summary |-> "p:Welcome"],
          [url |-> Home, summary |-> "p:Results"],
          [url |-> Cart, summary |-> "p:Results"] }

Click0   == [action |-> "click",    params |-> << <<"index", "0">> >>]
Navigate == [action |-> "navigate", params |-> << <<"url", "cart">> >>]
Done     == [action |-> "done",     params |-> <<>>]
Fail     == [action |-> "fail",     params |-> <<>>]


Wait1000 == [action |-> "wait",     params |-> << <<"duration", "1000">> >>]

\* What llm.complete answers to a decision request: parsable JSON or not.
Json(d) == [parsable |-> TRUE, json |-> d]

Garbage == [parsable |-> FALSE, json |-> Done]

\* What llm.complete answers to a verification request.
VerifyAnswers == {[threw |-> FALSE, content |-> <<"Yes">>],
                  [threw |-> FALSE, content |-> <<"no">>],
                  [threw |-> TRUE,  content |-> <<>>]}

\* What the post-action distill answers.
PostThrew == [threw |-> TRUE, url |-> <<>>]

PostUrl(u) == [threw |-> FALSE, url |-> u]

FbNothing == <<"No", "significant", "changes", "detected">>
FbSuccess == <<"A", "success", "message", "appeared">>

ObserverFeedback == {FbNothing, FbSuccess}

ExecFeedback(ok) == IF ok THEN <<"ok">> ELSE <<"failed">>

VerificationNote == <<"VERIFICATION", "FAILED">>

\* The messages of the errors an action may throw inside the executor.
NotFoundMsg   == <<"Element", "not", "found", "at", "index", "0">>
NotVisibleMsg == <<"Element", "not", "visible">>
InvalidMsg    == <<"Invalid", "parameter", "index">>
NetworkMsg    == <<"network", "error">>

\* ActionExecutor.createError, part_005 lines 334-356
CreateError(message) ==
    IF Includes(message, <<"not", "found">>)
    THEN [code |-> "ELEMENT_NOT_FOUND", recoverable |-> TRUE, message |-> message]
    ELSE IF Includes(message, <<"not", "visible">>)
    THEN [code |-> "ELEMENT_NOT_VISIBLE", recoverable |-> TRUE, message |-> message]
    ELSE IF Includes(message, <<"timeout">>)
    THEN [code |-> "TIMEOUT", recoverable |-> TRUE, message |-> message]
    ELSE IF Includes(message, <<"network">>)
    THEN [code |-> "NETWORK_ERROR", recoverable |-> FALSE, message |-> message]
    ELSE [code |-> "UNKNOWN", recoverable |-> TRUE, message |-> message]

NoError == [code |-> "none", recoverable |-> TRUE, message |-> <<>>]

\* ActionExecutor.execute, part_005 lines 100-150: the action went through, or
\* it threw and the catch block built the error
ExecOutcomes(failures) ==
    {[success |-> TRUE, error |-> NoError]}
        \cup {[success |-> FALSE, error |-> CreateError(m)] : m \in failures}

NoResult == [success |-> FALSE, steps |-> <<>>, code |-> "running", errStep |-> 0,
             retryCount |-> 0, via |-> "running", tokensUsed |-> 0]

NoLast == [path |-> "none", decision |-> "none", garbage |-> FALSE, verified |-> "none",
           executed |-> FALSE, execOk |-> FALSE, dup |-> FALSE,
           preUrl |-> <<>>, postUrl |-> <<>>, completion |-> "none", fault |-> "none",
           checkedCount |-> 0, atStep |-> 0, warned |-> FALSE, remaining |-> 0,
           error |-> NoError]

\* Every subtask, page and answer, a few steps deep.
EnvWide ==
    [maxStepsPerSubtask |-> MaxStepsWide,
     subtasks  |-> Subtasks,
     doms      |-> Doms,
     responses |-> {Json(Click0), Json(Navigate), Garbage},
     posts     |-> {PostThrew, PostUrl(Home), PostUrl(Cart)},
     failures  |-> {NotFoundMsg},
     usages    |-> {0}]

\* One subtask on one URL whose content may change, one action and the parse
\* fallback: deep enough for the stagnation and the failure counters to reach
\* their limits.
EnvDeep ==
    [maxStepsPerSubtask |-> MaxStepsDeep,
     subtasks  |-> {t \in Subtasks : t.id = "t1"},
     doms      |-> {d \in Doms : d.url = Home},
     responses |-> {Json(Click0), Garbage},
     posts     |-> {PostUrl(Home), PostUrl(Cart)},
     failures  |-> {NotFoundMsg},
     usages    |-> {0}]

\* One subtask on one page, with every kind of executor error.
EnvFail ==
    [maxStepsPerSubtask |-> MaxStepsWide,
     subtasks  |-> {t \in Subtasks : t.id = "t1"},
     doms      |-> {d \in Doms : d.url = Home},
     responses |-> {Json(Click0)},
     posts     |-> {PostUrl(Home)},
     failures  |-> {NotFoundMsg, NotVisibleMsg, InvalidMsg, NetworkMsg},
     usages    |-> {0}]

\* One subtask for each verb, on a page that never changes.
Verbs == {"type", "fill", "input", "select", "check", "login", "signup", "search",
          "read", "extract", "get", "find", "verify", "click", "scroll", "Read"}

VerbSubtasks ==
    { [id |-> "v", description |-> <<"the", "price">>, action |-> <<v>>,
       verification |-> <<>>, value |-> <<>>] : v \in Verbs }

EnvMode ==
    [maxStepsPerSubtask |-> MaxStepsWide,
     subtasks  |-> VerbSubtasks,
     doms      |-> {d \in Doms : d.url = Home /\ d.summary = "p:Welcome"},
     responses |-> {Json(Click0)},
     posts     |-> {PostUrl(Home)},
     failures  |-> {NotFoundMsg},
     usages    |-> {0}]

\* history: the raw answer to a verification request
AnswerKind(ans) ==
    IF ans.threw THEN "threw" ELSE IF ans.content = <<"Yes">> THEN "yes" ELSE "no"

\* A subtask whose verification hint names the URL and that carries no value.
NoFragment ==
    [id |-> "t4", description |-> <<"Read", "the", "total">>,
     action |-> <<"extract">>, verification |-> <<"URL", "is", "right">>,
     value |-> <<>>]

\* The subtasks verified by URL, on every page, with one action.
EnvUrl ==
    [maxStepsPerSubtask |-> MaxStepsWide,
     subtasks  |-> {t \in Subtasks : t.id = "t3"} \cup {NoFragment},
     doms      |-> Doms,
     responses |-> {Json(Click0)},
     posts     |-> {PostUrl(Home), PostUrl(Cart)},
     failures  |-> {NotFoundMsg},
     usages    |-> {0}]

NoCalls == [distill |-> 0, decide |-> 0, verify |-> 0, execute |-> 0,
            arm |-> 0, disarm |-> 0, completion |-> 0, modes |-> {},
            tokens |-> 0]

----------------------------------------------------------------------------
(* The pure pieces of executeSubTask *)

EmptyHash == <<>>

\* `${dom.url}::${domSummary}`
StateHash(dom) == <<dom.url, dom.summary>>

\* lines 236-246: the stagnation counter and the remembered hash after one look
Observed(dom) ==
    IF StateHash(dom) = lastStateHash /\ step > 0
    THEN [count |-> sameStateCount + 1, hash |-> lastStateHash]
    ELSE [count |-> 0, hash |-> StateHash(dom)]

\* faulty variant: the answer is assumed to be well-formed
ParseDecisionTrusting(resp) == resp.json

ParseDecision(resp) == IF resp.parsable THEN resp.json ELSE Wait1000

\* faulty variant: the verifier's answer is taken for a no whatever it says
VerifyAlwaysNo(ans) == FALSE

VerifySubtaskCompletion(ans) ==
    IF ans.threw THEN FALSE ELSE Includes(ToLowerCase(ans.content), <<"yes">>)

\* faulty variant: only the latest attempt is compared
IsDuplicateActionLastOnly(decision, history) ==
    /\ history # <<>>
    /\ Last(history).action = decision.action
    /\ Last(history).params = decision.params

\* faulty variant: a repeated action is never recognised
IsDuplicateActionNever(decision, history) == FALSE

IsDuplicateAction(decision, history) ==
    \E i \in DOMAIN history :
        /\ i > Len(history) - RecentActions
        /\ history[i].action = decision.action
        /\ history[i].params = decision.params

NavKeywords == { <<"submit">>, <<"login">>, <<"signin">>, <<"sign", "in">>,
                 <<"log", "in">>, <<"signup">>, <<"register">>, <<"checkout">>,
                 <<"proceed">>, <<"continue">>, <<"next">>, <<"confirm">>,
                 <<"go", "to">> }

\* faulty variant: any action of any subtask counts as navigation-related
IsNavigationRelatedAlways(st, actionType) == TRUE

IsNavigationRelatedAction(st, actionType) ==
    LET description == ToLowerCase(st.description)
        action      == ToLowerCase(st.action)
    IN  \/ \E kw \in NavKeywords : Includes(description, kw) \/ Includes(action, kw)
        \/ /\ actionType = "click"
           /\ Includes(description, <<"button">>) \/ Includes(description, <<"form">>)
        \/ actionType = "navigate"

\* faulty variant: the URLs before and after the action are never told apart
PageChangedNever(preActionUrl, postActionUrl) == FALSE

PageChanged(preActionUrl, postActionUrl) == preActionUrl # postActionUrl

\* changes.verbalFeedback || result.verbalFeedback
Enrich(changesFeedback, resultFeedback) ==
    IF changesFeedback # <<>> THEN changesFeedback ELSE resultFeedback

CompletionPhrases == { <<"success">>, <<"added">>, <<"submitted">>,
                       <<"logged", "in">>, <<"complete">>, <<"done">> }

CheckCompletion(st, dom, stepsNow) ==
    IF Len(stepsNow) = 0 THEN FALSE
    ELSE LET feedback == ToLowerCase(Last(stepsNow).verbalFeedback)
         IN  IF \E p \in CompletionPhrases : Includes(feedback, p) THEN TRUE
             ELSE IF st.verification # <<>>
                  THEN /\ Includes(ToLowerCase(st.verification), <<"url">>)
                       /\ Includes(dom.url, st.value)
                  ELSE FALSE

InputVerbs == { <<"type">>, <<"fill">>, <<"input">>, <<"select">>, <<"check">>,
                <<"login">>, <<"signup">>, <<"search">> }

TextVerbs == { <<"read">>, <<"extract">>, <<"get">>, <<"find">>, <<"verify">>,
               <<"check">> }

\* faulty variant: the reading verbs are tested before the form verbs
ChooseDOMModeTextFirst(st) ==
    LET action == ToLowerCase(st.action)
    IN  IF \E a \in TextVerbs : Includes(action, a) THEN "text_only"
        ELSE IF \E a \in InputVerbs : Includes(action, a) THEN "input_fields"
        ELSE "all_fields"

\* chooseDOMMode, lines 457-472
ChooseDOMMode(st) ==
    LET action == ToLowerCase(st.action)
    IN  IF \E a \in InputVerbs : Includes(action, a) THEN "input_fields"
        ELSE IF \E a \in TextVerbs : Includes(action, a) THEN "text_only"
        ELSE "all_fields"

\* faulty variant: the warning starts at half of the budget
BudgetWarningEarly(currentStep, maxSteps) ==
    [warn |-> 2 * currentStep >= maxSteps, remaining |-> maxSteps - currentStep]

\* buildActionPrompt, lines 631-644: currentStep / maxSteps >= 0.75, and the
\* remaining-step count the warning states
BudgetWarning(currentStep, maxSteps) ==
    [warn |-> 4 * currentStep >= 3 * maxSteps, remaining |-> maxSteps - currentStep]

\* faulty variant: the error argument is dropped from the result
CreateResultLosingError(success, stepsNow, retryNow, code, errStep, via) ==
    [success |-> success, steps |-> stepsNow, code |-> "none", errStep |-> 0,
     retryCount |-> retryNow, via |-> via, tokensUsed |-> totalTokens' - tokensAtStart]

\* faulty variant: createResult is called without tokensAtStart, which then
\* defaults to 0
CreateResultFromZero(success, stepsNow, retryNow, code, errStep, via) ==
    [success |-> success, steps |-> stepsNow, code |-> code, errStep |-> errStep,
     retryCount |-> retryNow, via |-> via, tokensUsed |-> totalTokens']

\* createResult, lines 784-803; it runs in the return statement, after the
\* LLM calls of the step have been added to totalTokens
CreateResult(success, stepsNow, retryNow, code, errStep, via) ==
    [success |-> success, steps |-> stepsNow, code |-> code, errStep |-> errStep,
     retryCount |-> retryNow, via |-> via, tokensUsed |-> totalTokens' - tokensAtStart]

----------------------------------------------------------------------------
(* ChangeObserver, src/src/services/ChangeObserver.ts *)

\* how many MutationObservers may be connected, and how many mutation events
\* one window may see
MaxObservers == 2

MaxEvents == 2

\* faulty variant: one phrase more is let through
SignificantLimitWide == 3 + 1

SignificantLimit == 3

\* Nodes as describeElement and getElementDescription see them.
Node(isElement, desc, name) == [element |-> isElement, desc |-> desc, name |-> name]

ModalNode   == Node(TRUE,  <<"div", "modal">>, <<"modal">>)
ItemNode    == Node(TRUE,  <<"li">>, <<"li">>)
BannerNode  == Node(TRUE,  <<"div", "cart", "success", "error", "modal">>, <<"div">>)
SpinnerNode == Node(TRUE,  <<"div", "spinner">>, <<"div">>)
TextNode    == Node(FALSE, <<"#text">>, <<"#text">>)

\* MutationRecords
ChildList(target, added, removed) ==
    [type |-> "childList", target |-> target, addedNodes |-> added,
     removedNodes |-> removed, attributeName |-> ""]

Attributes(target, attr) ==
    [type |-> "attributes", target |-> target, addedNodes |-> <<>>,
     removedNodes |-> <<>>, attributeName |-> attr]

CharacterData(target) ==
    [type |-> "characterData", target |-> target, addedNodes |-> <<>>,
     removedNodes |-> <<>>, attributeName |-> ""]

Body == <<"body">>

InputQ == <<"input", "q">>

Records == { ChildList(Body, <<ModalNode>>, <<>>),
             ChildList(Body, <<ItemNode, TextNode>>, <<ItemNode>>),
             ChildList(Body, <<BannerNode>>, <<SpinnerNode>>),
             Attributes(InputQ, "value"),
             Attributes(InputQ, "disabled"),
             Attributes(InputQ, "class"),
             CharacterData(<<"#text">>) }

Titles == {"Shop", "Cart"}

Urls == {Home, Cart}

\* this.state = null
NoState == [set |-> FALSE, url |-> <<>>, title |-> "", mutations |-> <<>>]

FbNoChanges == <<"No", "changes", "observed">>

\* lines 79-84
EmptyReport == [mutations |-> <<>>, verbalFeedback |-> FbNoChanges,
                urlChanged |-> FALSE, titleChanged |-> FALSE]

NoObsLast == [op |-> "none", hadState |-> FALSE, wasArmed |-> FALSE,
              armUrl |-> <<>>, armTitle |-> "", events |-> <<>>]

Str(n) ==
    CASE n = 0 -> "0" [] n = 1 -> "1" [] n = 2 -> "2" [] n = 3 -> "3"
      [] n = 4 -> "4" [] n = 5 -> "5" [] n = 6 -> "6" [] OTHER -> "many"

Min(a, b) == IF a < b THEN a ELSE b

\* lines 366-380
IsSignificantAttributeChange(attr) ==
    IF attr \in {"style", "class", "data-reactid", "data-reactroot"} THEN FALSE
    ELSE attr \in {"disabled", "hidden", "aria-hidden", "aria-expanded", "value",
                   "checked", "selected"}

\* faulty variant: no key is ever taken for seen
UnseenAlways(key, seen) == TRUE

\* !seen.has(key)
Unseen(key, seen) == key \notin seen

Change(type, target, description) ==
    [type |-> type, target |-> target, description |-> description]

\* the added (or removed) element nodes of one childList record, lines 131-161
RECURSIVE ProcessNodes(_, _, _, _)
ProcessNodes(nodes, kind, changes, seen) ==
    IF nodes = <<>> THEN [changes |-> changes, seen |-> seen]
    ELSE LET node == Head(nodes)
             key  == <<kind, node.desc, "">>
         IN  IF node.element /\ Unseen(key, seen)
             THEN ProcessNodes(Tail(nodes), kind,
                      Append(changes,
                          Change(kind, node.desc,
                                 IF kind = "added"
                                 THEN <<"New">> \o node.name \o <<"appeared">>
                                 ELSE node.name \o <<"was", "removed">>)),
                      seen \cup {key})
             ELSE ProcessNodes(Tail(nodes), kind, changes, seen)

\* one iteration of the loop of processMutations, lines 125-201
ProcessOne(mutation, acc) ==
    CASE mutation.type = "childList" ->
            LET a == ProcessNodes(mutation.addedNodes, "added", acc.changes, acc.seen)
            IN  ProcessNodes(mutation.removedNodes, "removed", a.changes, a.seen)
      [] mutation.type = "attributes" ->
            LET key == <<"modified", mutation.target, mutation.attributeName>>
            IN  IF Unseen(key, acc.seen) /\ mutation.attributeName # ""
                THEN [changes |->
                          IF IsSignificantAttributeChange(mutation.attributeName)
                          THEN Append(acc.changes,
                                   Change("modified", mutation.target,
                                          <<mutation.attributeName, "changed">>))
                          ELSE acc.changes,
                      seen |-> acc.seen \cup {key}]
                ELSE acc
      [] OTHER ->
            LET key == <<"text", mutation.target, "">>
            IN  IF Unseen(key, acc.seen)
                THEN [changes |-> Append(acc.changes,
                                     Change("text", mutation.target,
                                            <<"Text", "content", "changed">>)),
                      seen |-> acc.seen \cup {key}]
                ELSE acc

RECURSIVE ProcessFrom(_, _)
ProcessFrom(mutations, acc) ==
    IF mutations = <<>> THEN acc
    ELSE ProcessFrom(Tail(mutations), ProcessOne(Head(mutations), acc))

\* lines 121-204
ProcessMutations(mutations) ==
    ProcessFrom(mutations, [changes |-> <<>>, seen |-> {}]).changes

FbModalAppeared == <<"A", "modal/dialog", "appeared">>
FbModalClosed   == <<"A", "modal/dialog", "was", "closed">>
FbError         == <<"An", "error", "message", "appeared">>
FbLoading       == <<"Page", "is", "loading">>
FbLoaded        == <<"Loading", "completed">>
FbForm          == <<"Form", "state", "changed">>
FbCart          == <<"Cart/checkout", "was", "updated">>

SignificantPhrases == {FbModalAppeared, FbModalClosed, FbError, FbSuccess, FbLoading,
                       FbLoaded, FbForm, FbCart}

AnyIncluded(s, subs) == \E sub \in subs : Includes(s, sub)

When(c, phrase) == IF c THEN <<phrase>> ELSE <<>>

\* the phrases one change pushes, lines 261-300
PhrasesOf(change) ==
    LET target == ToLowerCase(change.target)
        desc   == ToLowerCase(change.description)
    IN  When(AnyIncluded(target, {<<"modal">>, <<"dialog">>, <<"popup">>})
                 /\ change.type = "added", FbModalAppeared)
        \o When(AnyIncluded(target, {<<"modal">>, <<"dialog">>, <<"popup">>})
                 /\ change.type = "removed", FbModalClosed)
        \o When(Includes(target, <<"error">>) \/ Includes(desc, <<"error">>), FbError)
        \o When(Includes(target, <<"success">>) \/ Includes(desc, <<"success">>), FbSuccess)
        \o When(AnyIncluded(target, {<<"loading">>, <<"spinner">>})
                 /\ change.type = "added", FbLoading)
        \o When(AnyIncluded(target, {<<"loading">>, <<"spinner">>})
                 /\ change.type = "removed", FbLoaded)
        \o When(Includes(desc, <<"submitted">>) \/ Includes(desc, <<"form">>), FbForm)
        \o When(AnyIncluded(target, {<<"cart">>, <<"checkout">>}), FbCart)

RECURSIVE AllPhrases(_)
AllPhrases(changes) ==
    IF changes = <<>> THEN <<>>
    ELSE PhrasesOf(Head(changes)) \o AllPhrases(Tail(changes))

\* [...new Set(s)]: the first occurrence of each element, in order
RECURSIVE Distinct(_)
Distinct(s) ==
    IF s = <<>> THEN <<>>
    ELSE LET init == Distinct(SubSeq(s, 1, Len(s) - 1))
         IN  IF \E i \in DOMAIN init : init[i] = Last(s) THEN init
             ELSE Append(init, Last(s))

\* lines 257-304
FindSignificantChanges(changes) == Distinct(AllPhrases(changes))

\* parts.join(sep)
RECURSIVE Join(_, _)
Join(parts, sep) ==
    IF parts = <<>> THEN <<>>
    ELSE IF Len(parts) = 1 THEN parts[1]
    ELSE parts[1] \o <<sep>> \o Join(Tail(parts), sep)

CountOf(changes, type) == Cardinality({i \in DOMAIN changes : changes[i].type = type})

\* new URL(newUrl).pathname
Pathname(url) == url[2]

FbNavigated == <<"Page", "navigated", "to">>

FbTitle == <<"Page", "title", "changed", "to">>

\* faulty variant: the navigation is not reported
NavigationPartSilent(urlChanged, newUrl) == <<>>

\* lines 219-222
NavigationPart(urlChanged, newUrl) ==
    IF urlChanged THEN << FbNavigated \o <<Pathname(newUrl)>> >> ELSE <<>>

\* faulty variant: the title change is reported whatever the URL did
TitlePartAlways(titleChanged, urlChanged, newTitle) ==
    IF titleChanged THEN << FbTitle \o <<newTitle>> >> ELSE <<>>

\* lines 225-227
TitlePart(titleChanged, urlChanged, newTitle) ==
    IF titleChanged /\ ~urlChanged THEN << FbTitle \o <<newTitle>> >> ELSE <<>>

SummaryPart(n, word) == IF n > 0 THEN << <<Str(n), "elements", word>> >> ELSE <<>>

\* lines 240-244
Summary(changes) ==
    Join(SummaryPart(CountOf(changes, "added"), "added")
             \o SummaryPart(CountOf(changes, "removed"), "removed")
             \o SummaryPart(CountOf(changes, "modified"), "modified"), ",")

\* lines 209-252
GenerateVerbalFeedback(changes, urlChanged, newUrl, titleChanged, newTitle) ==
    LET significantChanges == FindSignificantChanges(changes)
        counted == CountOf(changes, "added") + CountOf(changes, "removed")
                       + CountOf(changes, "modified")
        parts == NavigationPart(urlChanged, newUrl)
                 \o TitlePart(titleChanged, urlChanged, newTitle)
                 \o (IF Len(significantChanges) > 0
                     THEN SubSeq(significantChanges, 1,
                                 Min(SignificantLimit, Len(significantChanges)))
                     ELSE IF counted > 0 THEN <<Summary(changes)>> ELSE <<>>)
    IN  IF Len(parts) = 0 THEN FbNothing ELSE Join(parts, ".")

NoReport == [mutations |-> <<>>, verbalFeedback |-> <<>>,
             urlChanged |-> FALSE, titleChanged |-> FALSE]

\* the observer as constructed, lines 31-37, on a page at its start
ObserverInit ==
    /\ observer = FALSE
    /\ state = NoState
    /\ liveObservers = 0
    /\ document = [url |-> Home, title |-> "Shop"]
    /\ report = NoReport
    /\ obsLast = NoObsLast

\* startObserving, lines 42-66.  The MutationObserver held in this.observer, if
\* any, is overwritten without disconnect(): it stays connected.
StartObserving ==
    /\ liveObservers < MaxObservers
    /\ state' = [set |-> TRUE, url |-> document.url, title |-> document.title,
                 mutations |-> <<>>]
    /\ observer' = TRUE
    /\ liveObservers' = liveObservers + 1
    /\ report' = NoReport
    /\ obsLast' = [op |-> "start", hadState |-> state.set, wasArmed |-> observer,
                   armUrl |-> document.url, armTitle |-> document.title,
                   events |-> <<>>]
    /\ UNCHANGED <<taskVars, agentVars, distillerVars, document>>

\* faulty variant: the stale state is taken for a window
HasWindowAlways(st) == TRUE

\* line 78: this.state is set
HasWindow(st) == st.set

\* stopObserving, lines 71-116
StopObserving ==
    LET currentUrl   == document.url
        currentTitle == document.title
        urlChanged   == currentUrl # state.url
        titleChanged == currentTitle # state.title
        changes      == ProcessMutations(state.mutations)
        verbalFeedback == GenerateVerbalFeedback(changes, urlChanged, currentUrl,
                                                 titleChanged, currentTitle)
    IN  /\ observer' = FALSE
        /\ liveObservers' = IF observer THEN liveObservers - 1 ELSE liveObservers
        /\ report' = IF ~HasWindow(state) THEN EmptyReport
                     ELSE [mutations |-> changes, verbalFeedback |-> verbalFeedback,
                           urlChanged |-> urlChanged, titleChanged |-> titleChanged]
        /\ state' = NoState
        /\ obsLast' = [obsLast EXCEPT !.op = "stop", !.hadState = state.set,
                                      !.wasArmed = observer]
        /\ UNCHANGED <<taskVars, agentVars, distillerVars, document>>

RECURSIVE Copies(_, _)
Copies(x, n) == IF n = 0 THEN <<>> ELSE <<x>> \o Copies(x, n - 1)

\* lines 51-55: the page mutates inside a window; the callback of every
\* connected MutationObserver pushes the record onto this.state.mutations
Mutate ==
    /\ state.set
    /\ Len(obsLast.events) < MaxEvents
    /\ \E record \in Records :
        /\ state' = [state EXCEPT !.mutations = @ \o Copies(record, liveObservers)]
        /\ obsLast' = [obsLast EXCEPT !.op = "mutate", !.events = Append(@, record)]
    /\ UNCHANGED <<taskVars, agentVars, distillerVars, observer, liveObservers, document, report>>

\* lines 87-88: what document.location.href and document.title read changes
DocChange ==
    /\ \E url \in Urls, title \in Titles :
        /\ document' = [url |-> url, title |-> title]
        /\ document' # document
    /\ obsLast' = [obsLast EXCEPT !.op = "page"]
    /\ UNCHANGED <<taskVars, agentVars, distillerVars, observer, state, liveObservers, report>>

----------------------------------------------------------------------------
(* DOMDistiller and distillFromPlaywright, src/src/services/ErrorHandler.ts *)

\* the longest page built element by element, and the distill calls followed
MaxDocLen == 3

MaxDistills == 2

Modes == {"text_only", "input_fields", "all_fields", "smart"}

\* MAX_ELEMENTS, lines 551-556 (MAX of line 299 holds the same numbers)
MaxElements(mode) ==
    CASE mode = "text_only"    -> 500
      [] mode = "input_fields" -> 200
      [] OTHER                 -> 300

\* INTERACTIVE_ROLES and LANDMARK_ROLES, lines 531-542, as far as pages use them
InteractiveRoles == {"button", "link", "checkbox", "radio", "textbox", "combobox",
                     "searchbox"}

LandmarkRoles == {"banner", "form", "main", "navigation", "region", "search"}

\* The normalised text of an element: head is what its first MAX_TEXT_LENGTH
\* characters read (0: no text, or fewer than 5 characters), tail what follows
\* them (0: nothing, the text is no longer than that).
Text(head, tail) == [head |-> head, tail |-> tail]

NoText == Text(0, 0)

\* truncateText, lines 572-584, and truncate, line 296: a long text is cut
\* and "..." is appended
TruncateText(text) == [head |-> text.head, cut |-> text.tail # 0]

\* Elements as the distillers see them: tag, text, visibility, whether inside
\* a form, the rounded position of the bounding box, the attributes read, the
\* labels around it, and pos, its place in document order (set when the
\* element enters a page).
Element(tag, text, visible, inForm, y, x) ==
    [tag |-> tag, text |-> text, visible |-> visible, inForm |-> inForm,
     y |-> y, x |-> x, pos |-> 0,
     id |-> "", testid |-> "", name |-> "", cls |-> "", role |-> "",
     forLabel |-> "", wrapLabel |-> "", ariaLabel |-> "", title |-> ""]

Para(n)      == Element("p", Text(n, 0), TRUE, FALSE, 0, 0)
LongPara(k)  == Element("p", Text(9, k), TRUE, FALSE, 0, 0)
ListItem(n)  == Element("li", Text(n, 0), TRUE, FALSE, 0, 0)
ButtonEl     == Element("button", NoText, TRUE, FALSE, 100, 0)
InputEl      == [Element("input", NoText, TRUE, TRUE, 10, 50) EXCEPT
                    !.name = "q", !.title = "Query"]
EmailEl      == [Element("input", NoText, TRUE, TRUE, 100, 50) EXCEPT
                    !.id = "email", !.forLabel = "Email", !.wrapLabel = "Your email",
                    !.ariaLabel = "email field"]
LinkEl       == [Element("a", NoText, TRUE, FALSE, 0, 50) EXCEPT
                    !.testid = "go", !.cls = "nav"]
HiddenInput  == Element("input", NoText, FALSE, FALSE, 0, 0)
RoleDiv      == [Element("div", NoText, TRUE, FALSE, 0, 0) EXCEPT !.role = "presentation"]

Elements == {Para(1), LongPara(1), LongPara(2), ListItem(2), ButtonEl, InputEl,
             EmailEl, LinkEl, HiddenInput, RoleDiv}

Placed(el, pos) == [el EXCEPT !.pos = pos]

\* the elements of the long pages carry an id each
Numbered(el, pos) == [el EXCEPT !.pos = pos, !.id = ToString(pos)]

\* a page with one paragraph more than the text cap and one button more than
\* the interactive cap
Crowded ==
    [i \in 1..(MaxElements("text_only") + 1) |-> Numbered(Para(i), i)]
    \o [i \in 1..(MaxElements("all_fields") + 1) |->
            Numbered(ButtonEl, MaxElements("text_only") + 1 + i)]

\* a page that opens with a list item, goes on with one paragraph fewer than
\* the text cap and ends with a second list item
Mixed ==
    <<Numbered(ListItem(1), 1)>>
    \o [i \in 1..(MaxElements("text_only") - 1) |-> Numbered(Para(i + 2), i + 1)]
    \o <<Numbered(ListItem(2), MaxElements("text_only") + 1)>>

\* TEXT_CONTENT_TAGS (lines 523-528, and tags, line 352) in iteration order,
\* as far as pages use them
TagIs(tag, s) == SelectSeq(s, LAMBDA el : el.tag = tag)

\* the elements in the order the extraction visits them: by tag and then in
\* document order for text (lines 1048-1049, 356-358), in document order for
\* the selector lists (lines 1098-1112, 1207-1219, 373-399)
Visited(doc, mode) ==
    CASE mode = "text_only" ->
            TagIs("p", doc) \o TagIs("li", doc) \o TagIs("label", doc)
      [] mode = "input_fields" ->
            SelectSeq(doc, LAMBDA el :
                \/ el.tag \in {"input", "textarea", "select", "button"}
                \/ el.role \in {"button", "textbox", "checkbox", "radio", "combobox",
                                "searchbox"})
      [] OTHER ->
            SelectSeq(doc, LAMBDA el :
                \/ el.tag \in {"a", "button", "input", "select", "textarea"}
                \/ el.role # "")

\* lines 1226-1229: distillAllFields drops an element whose role is neither
\* interactive nor a landmark; distillInputFields and distillFromPlaywright
\* have no such test
RoleAdmitted(el, mode, which) ==
    \/ which # "dom"
    \/ mode # "all_fields"
    \/ el.role = ""
    \/ el.role \in InteractiveRoles \cup LandmarkRoles

\* seen.has(text), lines 1058 and 360: the set holds the whole normalised text
Fresh(visited, i) == \A j \in 1..(i - 1) : visited[j].text # visited[i].text

\* the tests an element passes to be kept: lines 1054-1059 and 359-360 for
\* text, lines 1123, 1226-1235 and 404 for the others
Passes(visited, mode, i, which) ==
    IF mode = "text_only"
    THEN visited[i].text.head # 0 /\ Fresh(visited, i)
    ELSE /\ RoleAdmitted(visited[i], mode, which)
         /\ visited[i].visible \/ visited[i].inForm

Passing(visited, mode, which) ==
    LET marked == [i \in DOMAIN visited |->
                      [el |-> visited[i], keep |-> Passes(visited, mode, i, which)]]
        kept   == SelectSeq(marked, LAMBDA m : m.keep)
    IN  [k \in DOMAIN kept |-> kept[k].el]

\* What the length test after the push does.  In DOMDistiller it is a `return`
\* inside the forEach callback (lines 1072, 1162, 1264): it ends the callback
\* of that element and the next element is visited all the same.  In
\* distillFromPlaywright it is a `break` (lines 365-367 and 457).
Extracted(passing, max, which) ==
    IF which = "playwright" /\ Len(passing) > max
    THEN SubSeq(passing, 1, max)
    ELSE passing

\* faulty variant: the counter goes on from the previous call
FirstIndexStale(current) == current

\* lines 974-975 (and `let idx = 0`, lines 356 and 401)
FirstIndex(current) == 0

\* the siblings of the same tag (every element of a page is a child of body)
SameTag(el, doc) == SelectSeq(doc, LAMBDA s : s.tag = el.tag)

\* the nth-of-type segment of lines 329-334 and 644-653: 0 stands for the bare
\* tag of an only sibling
NthOfType(el, doc) ==
    IF Len(SameTag(el, doc)) = 1 THEN 0
    ELSE Cardinality({i \in DOMAIN doc : doc[i].tag = el.tag /\ doc[i].pos <= el.pos})

Locator(by, tag, value, nth) == [by |-> by, tag |-> tag, value |-> value, nth |-> nth]

PathTo(el, doc) == Locator("path", el.tag, "", NthOfType(el, doc))

\* selectorFor, lines 314-338
SelectorFor(el, doc) ==
    IF el.id # "" THEN Locator("id", "", el.id, 0)
    ELSE IF el.testid # "" THEN Locator("testid", "", el.testid, 0)
    ELSE IF el.name # "" THEN Locator("name", el.tag, el.name, 0)
    ELSE PathTo(el, doc)

\* generateSelector, lines 596-660 (no page carries a data-id)
GenerateSelector(el, doc) ==
    IF el.id # "" THEN Locator("id", "", el.id, 0)
    ELSE IF el.cls # "" /\ Cardinality({i \in DOMAIN doc : doc[i].cls = el.cls}) = 1
    THEN Locator("class", "", el.cls, 0)
    ELSE IF el.testid # "" THEN Locator("testid", "", el.testid, 0)
    ELSE PathTo(el, doc)

\* getLabel, lines 1379-1401
GetLabel(el) ==
    IF el.wrapLabel # "" THEN el.wrapLabel
    ELSE IF el.id # "" /\ el.forLabel # "" THEN el.forLabel
    ELSE IF el.ariaLabel # "" THEN el.ariaLabel
    ELSE ""

\* the entry pushed for each element kept in turn, with the index of
\* assignIndex, lines 1333-1337 (idx, lines 362 and 439-440); src is history:
\* the place in the document of the element the entry was extracted from
Indexed(kept, first, doc, mode, which) ==
    [k \in DOMAIN kept |->
        [index    |-> first + k - 1,
         tag      |-> kept[k].tag,
         y        |-> kept[k].y,
         x        |-> kept[k].x,
         content  |-> TruncateText(kept[k].text),
         role     |-> kept[k].role,
         selector |-> IF mode = "text_only" THEN Locator("none", "", "", 0)
                      ELSE IF which = "dom" THEN GenerateSelector(kept[k], doc)
                      ELSE SelectorFor(kept[k], doc),
         label    |-> IF which = "dom" /\ mode = "input_fields" THEN GetLabel(kept[k])
                      ELSE "",
         src      |-> kept[k].pos]]

\* the comparator of lines 1166-1172 and 1268-1274 (every entry modelled has a
\* bounding box)
Abs(n, m) == IF n > m THEN n - m ELSE m - n

Precedes(a, b) ==
    IF Abs(a.y, b.y) > 20 THEN a.y < b.y ELSE a.x < b.x

\* Array.prototype.sort is stable.  The positions used fall into bands that the
\* comparator orders consistently: y 0 and 10 are one row, y 100 the next.
Band(entries, ys, x) == SelectSeq(entries, LAMBDA e : e.y \in ys /\ e.x = x)

Sort(entries) ==
    Band(entries, {0, 10}, 0) \o Band(entries, {0, 10}, 50)
    \o Band(entries, {100}, 0) \o Band(entries, {100}, 50)

\* distillSmart, lines 1302-1327
SmartMode(doc, textHeavy) ==
    LET inputCount == Len(SelectSeq(doc, LAMBDA el :
                              el.tag \in {"input", "textarea", "select"}))
        linkCount  == Len(TagIs("a", doc))
    IN  IF inputCount > 5 THEN "input_fields"
        ELSE IF linkCount > 20 /\ inputCount <= 5 THEN "all_fields"
        ELSE IF textHeavy /\ inputCount < 3 /\ linkCount < 20 THEN "text_only"
        ELSE "all_fields"

\* the mode whose extraction runs: lines 980-995; distillFromPlaywright takes
\* every mode but text_only through the elements branch (lines 351, 373)
EffectiveMode(mode, doc, textHeavy, which) ==
    IF mode # "smart" THEN mode
    ELSE IF which = "dom" THEN SmartMode(doc, textHeavy)
    ELSE "all_fields"

\* what the executor acts on for an index: the element of elementMap
\* (getElement, line 1010), or the first element of the page that the selector
\* of indexToSelector matches (part_005 lines 289-299 and
\* BrowserAdapter.getElement); 0 when there is none
Matches(loc, el, doc) ==
    CASE loc.by = "id"     -> el.id = loc.value
      [] loc.by = "testid" -> el.testid = loc.value
      [] loc.by = "name"   -> el.tag = loc.tag /\ el.name = loc.value
      [] loc.by = "class"  -> el.cls = loc.value
      [] loc.by = "path"   -> el.tag = loc.tag /\ NthOfType(el, doc) = loc.nth
      [] OTHER             -> FALSE

FirstMatch(loc, doc) ==
    LET found == SelectSeq(doc, LAMBDA el : Matches(loc, el, doc))
    IN  IF found = <<>> THEN 0 ELSE found[1].pos

Resolve(index, map, doc, which) ==
    IF index + 1 \notin DOMAIN map THEN 0
    ELSE IF which = "dom" THEN map[index + 1]
    ELSE FirstMatch(map[index + 1], doc)

\* this.elementMap.set(index, element), line 1335, and indexToSelector.push,
\* line 345, for each element kept in turn
IndexMap(kept, doc, which) ==
    IF which = "dom"
    THEN [k \in DOMAIN kept |-> kept[k].pos]
    ELSE [k \in DOMAIN kept |-> SelectorFor(kept[k], doc)]

\* lines 1174-1180 and 1276-1282: each entry of the sorted list, in turn, sets
\* data-agent-index on the element elementMap holds for its index to the place
\* of the entry in the sorted list; the other elements keep the attribute they
\* have (-1: none)
Marked(old, sorted) ==
    [p \in DOMAIN old |->
        IF \E i \in DOMAIN sorted : sorted[i].src = p
        THEN (CHOOSE i \in DOMAIN sorted : sorted[i].src = p) - 1
        ELSE old[p]]

\* extractForms, lines 863-891: for each form (a page has one, when it has
\* fields inside a form) the data-agent-index of its fields that carry one, in
\* document order
ExtractForms(doc, attrs) ==
    LET fields == SelectSeq(doc, LAMBDA el :
                      /\ el.inForm
                      /\ el.tag \in {"input", "select", "textarea", "button"}
                      /\ attrs[el.pos] >= 0)
    IN  IF \E p \in DOMAIN doc : doc[p].inForm
        THEN << [index |-> 0,
                 fieldIndices |-> [k \in DOMAIN fields |-> attrs[fields[k].pos]]] >>
        ELSE <<>>

NoView == [mode |-> "none", entries |-> <<>>, forms |-> <<>>]

\* target and acted are places in the document (0: no element); between is
\* history: a distill ran after the decision and before the action
NoPending == [phase |-> "none", index |-> 0, target |-> 0, acted |-> 0,
              between |-> FALSE]

NoDstLast == [op |-> "none", calls |-> 0, requested |-> "none", ran |-> "none",
              eligible |-> 0]

DistillerIdle ==
    /\ distiller = "dom"
    /\ page = <<>>
    /\ elementIndex = 0
    /\ elementMap = <<>>
    /\ view = NoView
    /\ marks = <<>>
    /\ pending = NoPending
    /\ dstLast = NoDstLast

\* a distiller of either kind as constructed, on an empty or a crowded page
DistillerInit ==
    /\ distiller \in {"dom", "playwright"}
    /\ page \in {<<>>, Crowded, Mixed}
    /\ elementIndex = 0
    /\ elementMap = <<>>
    /\ view = NoView
    /\ marks = [p \in DOMAIN page |-> -1]
    /\ pending = NoPending
    /\ dstLast = NoDstLast

\* distill, lines 971-1005, and PlaywrightDistiller.distill over
\* distillFromPlaywright, lines 283-470.  elementMap is this.elementMap (the
\* element of each index) or the executor's indexToSelector (its selector).
Distill ==
    /\ dstLast.calls < MaxDistills
    /\ \E mode \in Modes, textHeavy \in BOOLEAN :
        LET effective == EffectiveMode(mode, page, textHeavy, distiller)
            passing   == Passing(Visited(page, effective), effective, distiller)
            kept      == Extracted(passing,
                                   MaxElements(IF distiller = "playwright" THEN mode
                                               ELSE effective),
                                   distiller)
            first     == FirstIndex(elementIndex)
            entries   == Indexed(kept, first, page, effective, distiller)
            sorts     == distiller = "dom" /\ effective # "text_only"
        IN  /\ elementIndex' = IF distiller = "dom" THEN first + Len(kept) ELSE elementIndex
            /\ elementMap' = IndexMap(kept, page, distiller)
            /\ marks' = IF sorts THEN Marked(marks, Sort(entries)) ELSE marks
            /\ view' = [mode |-> IF distiller = "dom" THEN effective ELSE mode,
                        entries |-> IF sorts THEN Sort(entries) ELSE entries,
                        forms |-> IF distiller = "dom" /\ effective = "input_fields"
                                  THEN ExtractForms(page, marks') ELSE <<>>]
            /\ pending' = IF pending.phase = "decided"
                           THEN [pending EXCEPT !.between = TRUE] ELSE pending
            /\ dstLast' = [op |-> "distill", calls |-> dstLast.calls + 1,
                           requested |-> mode, ran |-> effective,
                           eligible |-> Len(passing)]
    /\ UNCHANGED <<taskVars, agentVars, observerVars, distiller, page>>

\* the page grows by one element between two looks at it
PageChange ==
    /\ Len(page) < MaxDocLen
    /\ \E el \in Elements : page' = Append(page, Placed(el, Len(page) + 1))
    /\ marks' = Append(marks, -1)
    /\ dstLast' = [dstLast EXCEPT !.op = "page", !.calls = 0]
    /\ UNCHANGED <<taskVars, agentVars, observerVars, distiller, elementIndex, elementMap, view,
                   pending>>

\* BrowserNavigationAgent.ts lines 224-254: a view is distilled and the
\* decision chooses the index of one of its entries
Decision ==
    /\ pending.phase # "decided"
    /\ dstLast.op = "distill"
    /\ view.mode \notin {"none", "text_only"}
    /\ \E i \in DOMAIN view.entries :
           pending' = [NoPending EXCEPT !.phase = "decided",
                                        !.index = view.entries[i].index,
                                        !.target = view.entries[i].src]
    /\ UNCHANGED <<taskVars, agentVars, observerVars, distiller, page, elementIndex,
                   elementMap, view, marks, dstLast>>

\* part_005 lines 100-166 and 289-299: the executor, after the awaits that
\* precede it, asks the distiller for the element of the index and acts on it
ExecuteAction ==
    /\ pending.phase = "decided"
    /\ pending' = [pending EXCEPT !.phase = "acted",
                       !.acted = Resolve(pending.index, elementMap, page, distiller)]
    /\ UNCHANGED <<taskVars, agentVars, observerVars, distiller, page, elementIndex,
                   elementMap, view, marks, dstLast>>

\* execute() with the application calling getContext() (WebAgent.ts lines
\* 334-336) whenever execute() is suspended
NextContext ==
    \/ Distill
    \/ PageChange
    \/ Decision
    \/ ExecuteAction

NextDistiller ==
    \/ Distill
    \/ PageChange

----------------------------------------------------------------------------
(* executeSubTask *)

InitIn(e) ==
    /\ env = e
    /\ subtask \in e.subtasks
    /\ chosenMode = "none"
    /\ pc = "start"
    /\ step = 0
    /\ steps = <<>>
    /\ retryCount = 0
    /\ consecutiveFailures = 0
    /\ sameStateCount = 0
    /\ lastStateHash = EmptyHash
    /\ actionHistory = <<>>
    /\ result = NoResult
    /\ calls = NoCalls
    /\ last = NoLast
    /\ prevFp = EmptyHash
    /\ fpChanged = FALSE
    /\ totalTokens = 0
    /\ tokensAtStart = 0

\* lines 528 and 739: this.totalTokens += response.usage.totalTokens
Spend(spent) ==
    /\ totalTokens' = totalTokens + spent
    /\ UNCHANGED tokensAtStart

\* a return statement of executeSubTask
Return(r) ==
    /\ pc' = "done"
    /\ result' = r

\* faulty variant: the catch block returns without the steps collected so far
CatchFaultDroppingSteps ==
    Return(CreateResult(FALSE, <<>>, retryCount, "ACTION_FAILED", 0, "fault"))

\* the catch block, lines 395-405
CatchFault ==
    Return(CreateResult(FALSE, steps, retryCount, "ACTION_FAILED", Len(steps), "fault"))

\* faulty variant: the loop test lets one iteration more through
NextIterationLate(stepsNow, retryNow) ==
    /\ step' = step + 1
    /\ IF step + 1 < env.maxStepsPerSubtask + 1
       THEN /\ pc' = "loop"
            /\ result' = result
       ELSE Return(CreateResult(FALSE, stepsNow, retryNow, "MAX_STEPS_EXCEEDED",
                                Len(stepsNow), "budget"))

\* the end of the loop body: step++, the loop test, and lines 388-393
NextIteration(stepsNow, retryNow) ==
    /\ step' = step + 1
    /\ IF step + 1 < env.maxStepsPerSubtask
       THEN /\ pc' = "loop"
            /\ result' = result
       ELSE Return(CreateResult(FALSE, stepsNow, retryNow, "MAX_STEPS_EXCEEDED",
                                Len(stepsNow), "budget"))

\* what the loop-top distill of this iteration adds to the history variables
SeenChanged(dom) == fpChanged \/ (prevFp # EmptyHash /\ prevFp # StateHash(dom))

Seen(dom) ==
    /\ prevFp' = StateHash(dom)
    /\ fpChanged' = SeenChanged(dom)

\* lines 209-220: mode choice, initial distill, precheck
Precheck ==
    /\ pc = "start"
    /\ chosenMode' = ChooseDOMMode(subtask)
    /\ \E threw \in BOOLEAN, ans \in VerifyAnswers, v \in env.usages :
        IF threw
        THEN /\ Spend(0)
             /\ CatchFault
             /\ calls' = [calls EXCEPT !.modes = {ChooseDOMMode(subtask)}, !.distill = @ + 1]
             /\ last' = [NoLast EXCEPT !.path = "precheck", !.fault = "distiller"]
        ELSE /\ Spend(IF ans.threw THEN 0 ELSE v)
             /\ calls' = [calls EXCEPT !.modes = {ChooseDOMMode(subtask)}, !.distill = @ + 1, !.verify = @ + 1,
                                        !.tokens = @ + (IF ans.threw THEN 0 ELSE v)]
             /\ last' = [NoLast EXCEPT !.path = "precheck",
                            !.verified = AnswerKind(ans),
                            !.fault = IF ans.threw THEN "verify" ELSE "none"]
             /\ IF VerifySubtaskCompletion(ans)
                THEN Return(CreateResult(TRUE, steps, retryCount, "none", 0, "precheck"))
                ELSE pc' = "loop" /\ result' = result
    /\ UNCHANGED <<taskVars, observerVars, distillerVars, env, subtask, step, steps, retryCount, consecutiveFailures, sameStateCount,
                   lastStateHash, actionHistory, prevFp, fpChanged>>

\* line 224 throws
DistillFault ==
    /\ pc = "loop"
    /\ Spend(0)
    /\ CatchFault
    /\ calls' = [calls EXCEPT !.modes = @ \cup {chosenMode}, !.distill = @ + 1]
    /\ last' = [NoLast EXCEPT !.path = "distill", !.fault = "distiller"]
    /\ UNCHANGED <<taskVars, observerVars, distillerVars, env, subtask, chosenMode, step, steps, retryCount, consecutiveFailures, sameStateCount,
                   lastStateHash, actionHistory, prevFp, fpChanged>>

\* lines 224-256: the stagnation check ends the run
NoProgress ==
    /\ pc = "loop"
    /\ \E dom \in env.doms :
        LET o == Observed(dom)
        IN  /\ o.count >= NoProgressLimit
            /\ Spend(0)
            /\ sameStateCount' = o.count
            /\ lastStateHash' = o.hash
            /\ Seen(dom)
            /\ Return(CreateResult(FALSE, steps, retryCount, "NO_PROGRESS", Len(steps),
                                   "stagnation"))
            /\ calls' = [calls EXCEPT !.modes = @ \cup {chosenMode}, !.distill = @ + 1]
            /\ last' = [NoLast EXCEPT !.path = "noprogress", !.checkedCount = o.count,
                                      !.preUrl = dom.url]
    /\ UNCHANGED <<taskVars, observerVars, distillerVars, env, subtask, chosenMode, step, steps, retryCount, consecutiveFailures, actionHistory>>

\* line 259 throws: llm.complete of decideAction rejects
DecideFault ==
    /\ pc = "loop"
    /\ \E dom \in env.doms :
        LET o == Observed(dom)
        IN  /\ o.count < NoProgressLimit
            /\ Spend(0)
            /\ sameStateCount' = o.count
            /\ lastStateHash' = o.hash
            /\ Seen(dom)
            /\ CatchFault
            /\ calls' = [calls EXCEPT !.modes = @ \cup {chosenMode}, !.distill = @ + 1, !.decide = @ + 1]
            /\ last' = [NoLast EXCEPT !.path = "decide", !.atStep = step,
                            !.warned = BudgetWarning(Len(actionHistory),
                                           env.maxStepsPerSubtask).warn,
                            !.remaining = BudgetWarning(Len(actionHistory),
                                              env.maxStepsPerSubtask).remaining,
                            !.checkedCount = o.count,
                                      !.preUrl = dom.url, !.fault = "llm"]
    /\ UNCHANGED <<taskVars, observerVars, distillerVars, env, subtask, chosenMode, step, steps, retryCount, consecutiveFailures, actionHistory>>

\* DoneStep without the check of lines 263-270: the model's 'done' is taken at
\* its word.
DoneStepTrusting ==
    /\ pc = "loop"
    /\ \E dom \in env.doms, ans \in VerifyAnswers, u \in env.usages, v \in env.usages :
        LET o == Observed(dom)
            isVerified == TRUE
        IN  /\ o.count < NoProgressLimit
            /\ Spend(u + (IF ans.threw THEN 0 ELSE v))
            /\ lastStateHash' = o.hash
            /\ Seen(dom)
            /\ calls' = [calls EXCEPT !.modes = @ \cup {chosenMode}, !.distill = @ + 1, !.decide = @ + 1, !.verify = @ + 1,
                            !.tokens = @ + u + (IF ans.threw THEN 0 ELSE v)]
            /\ last' = [NoLast EXCEPT !.path = "done", !.atStep = step,
                            !.warned = BudgetWarning(Len(actionHistory),
                                           env.maxStepsPerSubtask).warn,
                            !.remaining = BudgetWarning(Len(actionHistory),
                                              env.maxStepsPerSubtask).remaining,
                            !.checkedCount = o.count,
                            !.preUrl = dom.url, !.decision = "done",
                            !.verified = AnswerKind(ans),
                            !.fault = IF ans.threw THEN "verify" ELSE "none"]
            /\ IF isVerified
               THEN /\ sameStateCount' = o.count
                    /\ actionHistory' = actionHistory
                    /\ step' = step
                    /\ Return(CreateResult(TRUE, steps, retryCount, "none", 0, "done"))
               ELSE /\ sameStateCount' = o.count + 1
                    /\ actionHistory' = Append(actionHistory,
                           [action |-> "wait", params |-> <<>>, success |-> FALSE,
                            feedback |-> VerificationNote])
                    /\ NextIteration(steps, retryCount)
    /\ UNCHANGED <<taskVars, observerVars, distillerVars, env, subtask, chosenMode, steps, retryCount, consecutiveFailures>>

\* lines 261-281: the model says 'done'
DoneStep ==
    /\ pc = "loop"
    /\ \E dom \in env.doms, ans \in VerifyAnswers, u \in env.usages, v \in env.usages :
        LET o == Observed(dom)
            isVerified == VerifySubtaskCompletion(ans)
        IN  /\ o.count < NoProgressLimit
            /\ Spend(u + (IF ans.threw THEN 0 ELSE v))
            /\ lastStateHash' = o.hash
            /\ Seen(dom)
            /\ calls' = [calls EXCEPT !.modes = @ \cup {chosenMode}, !.distill = @ + 1, !.decide = @ + 1, !.verify = @ + 1,
                            !.tokens = @ + u + (IF ans.threw THEN 0 ELSE v)]
            /\ last' = [NoLast EXCEPT !.path = "done", !.atStep = step,
                            !.warned = BudgetWarning(Len(actionHistory),
                                           env.maxStepsPerSubtask).warn,
                            !.remaining = BudgetWarning(Len(actionHistory),
                                              env.maxStepsPerSubtask).remaining,
                            !.checkedCount = o.count,
                            !.preUrl = dom.url, !.decision = "done",
                            !.verified = AnswerKind(ans),
                            !.fault = IF ans.threw THEN "verify" ELSE "none"]
            /\ IF isVerified
               THEN /\ sameStateCount' = o.count
                    /\ actionHistory' = actionHistory
                    /\ step' = step
                    /\ Return(CreateResult(TRUE, steps, retryCount, "none", 0, "done"))
               ELSE /\ sameStateCount' = o.count + 1
                    /\ actionHistory' = Append(actionHistory,
                           [action |-> "wait", params |-> <<>>, success |-> FALSE,
                            feedback |-> VerificationNote])
                    /\ NextIteration(steps, retryCount)
    /\ UNCHANGED <<taskVars, observerVars, distillerVars, env, subtask, chosenMode, steps, retryCount, consecutiveFailures>>

\* lines 283-292: the model says 'fail'
FailStep ==
    /\ pc = "loop"
    /\ \E dom \in env.doms, u \in env.usages :
        LET o == Observed(dom)
        IN  /\ o.count < NoProgressLimit
            /\ Spend(u)
            /\ sameStateCount' = o.count
            /\ lastStateHash' = o.hash
            /\ Seen(dom)
            /\ Return(CreateResult(FALSE, steps, retryCount, "MODEL_REPORTED_FAILURE",
                                   Len(steps), "model"))
            /\ calls' = [calls EXCEPT !.modes = @ \cup {chosenMode}, !.distill = @ + 1, !.decide = @ + 1, !.tokens = @ + u]
            /\ last' = [NoLast EXCEPT !.path = "fail", !.atStep = step,
                            !.warned = BudgetWarning(Len(actionHistory),
                                           env.maxStepsPerSubtask).warn,
                            !.remaining = BudgetWarning(Len(actionHistory),
                                              env.maxStepsPerSubtask).remaining,
                            !.checkedCount = o.count,
                                      !.preUrl = dom.url, !.decision = "fail"]
    /\ UNCHANGED <<taskVars, observerVars, distillerVars, env, subtask, chosenMode, step, steps, retryCount, consecutiveFailures, actionHistory>>

\* lines 294-314 throw: startObserving, executor.execute or stopObserving
ActFault ==
    /\ pc = "loop"
    /\ \E dom \in env.doms, resp \in env.responses, where \in {"arm", "executor", "observer"},
          u \in env.usages :
        LET o == Observed(dom)
            decision == ParseDecision(resp)
            isDuplicateAction == IsDuplicateAction(decision, actionHistory)
        IN  /\ o.count < NoProgressLimit
            /\ Spend(u)
            /\ sameStateCount' = IF isDuplicateAction THEN o.count + 1 ELSE o.count
            /\ lastStateHash' = o.hash
            /\ Seen(dom)
            /\ CatchFault
            /\ calls' = [calls EXCEPT !.modes = @ \cup {chosenMode}, !.distill = @ + 1, !.decide = @ + 1, !.arm = @ + 1, !.tokens = @ + u,
                            !.execute = IF where = "arm" THEN @ ELSE @ + 1,
                            !.disarm = IF where = "observer" THEN @ + 1 ELSE @]
            /\ last' = [NoLast EXCEPT !.path = "act", !.atStep = step,
                            !.warned = BudgetWarning(Len(actionHistory),
                                           env.maxStepsPerSubtask).warn,
                            !.remaining = BudgetWarning(Len(actionHistory),
                                              env.maxStepsPerSubtask).remaining,
                            !.checkedCount = o.count,
                            !.preUrl = dom.url, !.decision = decision.action,
                            !.garbage = ~resp.parsable, !.dup = isDuplicateAction,
                            !.executed = (where # "arm"),
                            !.fault = IF where = "arm" THEN "observer" ELSE where]
    /\ UNCHANGED <<taskVars, observerVars, distillerVars, env, subtask, chosenMode, step, steps, retryCount, consecutiveFailures, actionHistory>>

\* lines 294-386: an action is decided, executed and judged
ActStep ==
    /\ pc = "loop"
    /\ \E dom \in env.doms, resp \in env.responses, out \in ExecOutcomes(env.failures),
          fb \in ObserverFeedback, post \in env.posts, u \in env.usages :
        LET o == Observed(dom)
            ok == out.success
            decision == ParseDecision(resp)
            isDuplicateAction == IsDuplicateAction(decision, actionHistory)
            count1 == IF isDuplicateAction THEN o.count + 1 ELSE o.count
            preActionUrl == dom.url
            postActionUrl == IF post.threw THEN preActionUrl ELSE post.url
            pageChanged == PageChanged(preActionUrl, postActionUrl)
            shortcut == pageChanged /\ IsNavigationRelatedAction(subtask, decision.action)
            enrichedResult == [action |-> decision.action, params |-> decision.params,
                               success |-> ok,
                               verbalFeedback |-> Enrich(fb, ExecFeedback(ok))]
            steps1 == Append(steps, enrichedResult)
            retry1 == IF ok THEN retryCount ELSE retryCount + 1
            failures1 == IF ok THEN 0 ELSE consecutiveFailures + 1
            tooMany == ~ok /\ failures1 >= MaxConsecutiveFailures
            isComplete == CheckCompletion(subtask, dom, steps1)
        IN  /\ o.count < NoProgressLimit
            /\ Spend(u)
            /\ sameStateCount' = IF pageChanged THEN 0 ELSE count1
            /\ prevFp' = StateHash(dom)
            /\ fpChanged' = (SeenChanged(dom) \/ (~post.threw /\ post.url # dom.url))
            /\ calls' = [calls EXCEPT !.modes = @ \cup {chosenMode}, !.distill = @ + 2, !.decide = @ + 1, !.arm = @ + 1, !.tokens = @ + u,
                            !.execute = @ + 1, !.disarm = @ + 1,
                            !.completion = IF shortcut \/ tooMany THEN @ ELSE @ + 1]
            /\ last' = [NoLast EXCEPT !.path = "act", !.atStep = step,
                            !.warned = BudgetWarning(Len(actionHistory),
                                           env.maxStepsPerSubtask).warn,
                            !.remaining = BudgetWarning(Len(actionHistory),
                                              env.maxStepsPerSubtask).remaining,
                            !.checkedCount = o.count,
                            !.preUrl = dom.url, !.postUrl = post.url,
                            !.decision = decision.action, !.garbage = ~resp.parsable,
                            !.dup = isDuplicateAction, !.executed = TRUE, !.execOk = ok,
                            !.error = out.error,
                            !.completion = IF shortcut \/ tooMany THEN "none"
                                           ELSE IF isComplete THEN "yes" ELSE "no",
                            !.fault = IF post.threw THEN "postDistill" ELSE "none"]
            /\ IF shortcut
               THEN /\ lastStateHash' = o.hash
                    /\ UNCHANGED <<step, steps, retryCount, consecutiveFailures,
                                   actionHistory>>
                    /\ Return(CreateResult(TRUE, steps, retryCount, "none", 0, "shortcut"))
               ELSE /\ lastStateHash' = IF pageChanged THEN EmptyHash ELSE o.hash
                    /\ steps' = steps1
                    /\ actionHistory' = Append(actionHistory,
                           [action |-> decision.action, params |-> decision.params,
                            success |-> ok, feedback |-> ExecFeedback(ok)])
                    /\ retryCount' = retry1
                    /\ consecutiveFailures' = failures1
                    /\ IF tooMany
                       THEN /\ step' = step
                            /\ Return(CreateResult(FALSE, steps1, retry1,
                                         "CONSECUTIVE_FAILURES", step, "failures"))
                       ELSE IF isComplete
                       THEN /\ step' = step
                            /\ Return(CreateResult(TRUE, steps1, retry1, "none", 0,
                                                   "completion"))
                       ELSE NextIteration(steps1, retry1)
    /\ UNCHANGED <<taskVars, observerVars, distillerVars, env, subtask, chosenMode>>

Next ==
    \/ Precheck
    \/ DistillFault
    \/ NoProgress
    \/ DecideFault
    \/ DoneStep
    \/ FailStep
    \/ ActFault
    \/ ActStep

\* the calls a client may make on one ChangeObserver, and the page under it
NextObserver ==
    \/ StartObserving
    \/ StopObserving
    \/ Mutate
    \/ DocChange

----------------------------------------------------------------------------
(* WebAgent.execute and WebAgent.stop, src/src/core/WebAgent.ts *)

\* how many subtasks a plan may have (config.maxSubtasksPerTask) and how often
\* execute is called
MaxSubtasks == 2

MaxExecutes == 1

\* config.retry.maxRetries and config.maxTotalSteps
MaxRetries == 1

MaxTotalSteps == 3

\* config.retry.backoffMs and config.retry.backoffMultiplier
BackoffMs == 1000

BackoffMultiplier == 2

\* the text of the user's task
UserTask == <<"buy", "shoes">>

\* One element of the array the planner's LLM answers with.
RawItem(st, priority) ==
    [isObj |-> TRUE, id |-> st.id, description |-> st.description, action |-> st.action,
     verification |-> st.verification, value |-> st.value, priority |-> priority]

\* What the planner's LLM may answer: text that JSON.parse rejects, JSON that
\* is no array, or an array of items.
NoJson == [parsable |-> FALSE, isArray |-> FALSE, items |-> <<>>]

NoArray == [parsable |-> TRUE, isArray |-> FALSE, items |-> <<>>]

Array(items) == [parsable |-> TRUE, isArray |-> TRUE, items |-> items]

ArraysOf(raws, lengths) == { Array(items) : items \in UNION { [1..n -> raws] : n \in lengths } }

T1Items == { RawItem(t, p) : t \in {t \in Subtasks : t.id = "t1"}, p \in {"high", "medium"} }

\* One subtask on a page that never changes, answered by one action.
EnvTask ==
    [maxStepsPerSubtask |-> MaxStepsWide,
     subtasks  |-> {t \in Subtasks : t.id = "t1"},
     doms      |-> {d \in Doms : d.url = Home /\ d.summary = "p:Welcome"},
     responses |-> {Json(Click0)},
     posts     |-> {PostUrl(Home)},
     failures  |-> {NotFoundMsg},
     usages    |-> {0},
     task      |-> UserTask,
     answers   |-> ArraysOf(T1Items, 1..MaxSubtasks),
     maxSubtasks |-> MaxSubtasks,
     maxRetries  |-> MaxRetries,
     executes    |-> MaxExecutes]

\* how many items the planner's LLM may answer with
MaxAnswerLen == 3

NoIdItem == [RawItem(CHOOSE t \in Subtasks : t.id = "t3", "urgent") EXCEPT !.id = ""]

NoActionItem == [RawItem(CHOOSE t \in Subtasks : t.id = "t1", "low") EXCEPT !.action = <<>>]

NotAnObject == [isObj |-> FALSE, id |-> "", description |-> <<>>, action |-> <<>>,
                verification |-> <<>>, value |-> <<>>, priority |-> ""]

\* Every shape of answer the planner may get, and nothing after the plan.
EnvPlanner ==
    [EnvTask EXCEPT !.usages = {0, 1},
                    !.answers = {NoJson, NoArray, Array(<<>>)} \cup
                        ArraysOf({RawItem(CHOOSE t \in Subtasks : t.id = "t1", "high"),
                                  NoIdItem, NoActionItem, NotAnObject}, 1..MaxAnswerLen)]

\* a per-subtask cap of one step, two retries and two execute() calls
MaxStepsShort == 1

MaxRetriesDeep == 2

MaxExecutesTwice == 2

\* Short subtask runs with LLM calls that cost tokens, followed by a second
\* task.
EnvSession ==
    [EnvTask EXCEPT !.maxStepsPerSubtask = MaxStepsShort,
                    !.usages = {1, 2},
                    !.answers = {NoJson},
                    !.executes = MaxExecutesTwice]

\* Short subtask runs of a plan of two subtasks, retried up to twice.
EnvRetry ==
    [EnvTask EXCEPT !.maxStepsPerSubtask = MaxStepsShort,
                    !.answers = ArraysOf({RawItem(CHOOSE t \in Subtasks : t.id = "t1",
                                                  "medium")}, {MaxSubtasks}),
                    !.maxRetries = MaxRetriesDeep]

\* PlannerAgent.validateSubtasks, PlannerAgent.ts lines 186-225
IsValidItem(raw) == raw.isObj /\ raw.description # <<>> /\ raw.action # <<>>

RECURSIVE Filter(_)
Filter(items) ==
    IF items = <<>> THEN <<>>
    ELSE IF IsValidItem(Head(items)) THEN <<Head(items)>> \o Filter(Tail(items))
    ELSE Filter(Tail(items))

Slice(items, n) == SubSeq(items, 1, IF Len(items) < n THEN Len(items) ELSE n)

\* faulty variant: the array is not cut to maxSubtasks
ValidateSubtasksNoSlice(answer, maxSubtasks) ==
    IF ~answer.isArray THEN <<>>
    ELSE LET kept == Filter(answer.items)
         IN  [k \in DOMAIN kept |->
                [subtask |-> [id |-> IF kept[k].id # "" THEN kept[k].id ELSE ToString(k),
                              description |-> kept[k].description,
                              action |-> kept[k].action,
                              verification |-> kept[k].verification,
                              value |-> kept[k].value],
                 priority |-> IF kept[k].priority \in {"high", "medium", "low"}
                              THEN kept[k].priority ELSE "none"]]

ValidateSubtasks(answer, maxSubtasks) ==
    IF ~answer.isArray THEN <<>>
    ELSE LET kept == Filter(Slice(answer.items, maxSubtasks))
         IN  [k \in DOMAIN kept |->
                [subtask |-> [id |-> IF kept[k].id # "" THEN kept[k].id ELSE ToString(k),
                              description |-> kept[k].description,
                              action |-> kept[k].action,
                              verification |-> kept[k].verification,
                              value |-> kept[k].value],
                 priority |-> IF kept[k].priority \in {"high", "medium", "low"}
                              THEN kept[k].priority ELSE "none"]]

\* PlannerAgent.planTask, lines 100-111: the single fallback subtask
Fallback(userTask) ==
    << [subtask |-> [id |-> "1", description |-> userTask, action |-> <<"navigate">>,
                     verification |-> <<"Page", "loaded">>, value |-> <<>>],
        priority |-> "none"] >>

\* PlannerAgent.planTask, lines 82-121: the subtasks of the plan
PlanOf(answer, userTask, maxSubtasks) ==
    LET subtasks == IF answer.parsable THEN ValidateSubtasks(answer, maxSubtasks) ELSE <<>>
    IN  IF subtasks = <<>> THEN Fallback(userTask) ELSE subtasks

\* what planner.handleFailure may return: the strategy, and whether it came
\* with retryModifications
Recoveries == [strategy : {"retry", "alternative", "skip", "abort"}, modified : BOOLEAN]

TaskIds == {"t1", "t2", "t3", "1", "2", "3"}

NoRetries == [id \in TaskIds |-> 0]

NoTask == [phase |-> "idle", isRunning |-> FALSE, shouldStop |-> FALSE,
           currentTaskId |-> 0,
           plan |-> <<>>, i |-> 0, attempt |-> 0, retrying |-> FALSE,
           retries |-> NoRetries, totalSteps |-> 0, failures |-> 0,
           results |-> <<>>, returned |-> "none",
           plannerTokens |-> 0, totalTokens |-> 0, resultTokens |-> 0,
           executes |-> 0, rejected |-> 0, runs |-> 0, executed |-> 0,
           stopped |-> FALSE, stopAt |-> 0, stopRuns |-> 0,
           answer |-> NoJson, spentPlanning |-> 0, spentRuns |-> 0,
           made |-> 0, waited |-> 0, verdict |-> "none"]

TaskIdle == task = NoTask

\* history: how many actions the executor was asked to start in this execute()
Started == task.executed + (IF task.phase = "sub" THEN calls.execute ELSE 0)

\* lines 198-206: a call of browserNav.executeSubTask
StartSubTask(st) ==
    /\ subtask' = st
    /\ chosenMode' = "none"
    /\ pc' = "start"
    /\ step' = 0
    /\ steps' = <<>>
    /\ retryCount' = 0
    /\ consecutiveFailures' = 0
    /\ sameStateCount' = 0
    /\ lastStateHash' = EmptyHash
    /\ actionHistory' = <<>>
    /\ result' = NoResult
    /\ calls' = NoCalls
    /\ last' = NoLast
    /\ prevFp' = EmptyHash
    /\ fpChanged' = FALSE
    /\ tokensAtStart' = totalTokens
    /\ UNCHANGED <<env, totalTokens>>

\* faulty variant: the finally block leaves currentTaskId as it is
FinishedKeepingId(t) ==
    [t EXCEPT !.phase = "idle", !.isRunning = FALSE,
              !.retries = NoRetries,
              !.resultTokens = t.totalTokens,
              !.returned = IF /\ t.results # <<>>
                              /\ \A k \in DOMAIN t.results : t.results[k]
                           THEN "success" ELSE "failure"]

\* lines 198-226: the TaskResult is built, and the finally block runs
Finished(t) ==
    [t EXCEPT !.phase = "idle", !.isRunning = FALSE, !.currentTaskId = 0,
              !.retries = NoRetries,
              !.resultTokens = t.totalTokens,
              !.returned = IF /\ t.results # <<>>
                              /\ \A k \in DOMAIN t.results : t.results[k]
                           THEN "success" ELSE "failure"]

\* lines 91-104: execute up to the planning call
Execute ==
    /\ ~task.isRunning
    /\ task.executes < env.executes
    /\ task' = [task EXCEPT !.phase = "plan", !.isRunning = TRUE, !.shouldStop = FALSE,
                            !.currentTaskId = task.executes + 1,
                            !.plan = <<>>, !.i = 0, !.attempt = 0, !.retrying = FALSE,
                            !.totalSteps = 0, !.failures = 0, !.results = <<>>,
                            !.returned = "none", !.totalTokens = 0, !.resultTokens = 0,
                            !.executes = @ + 1, !.rejected = 0,
                            !.runs = 0, !.executed = 0,
                            !.stopped = FALSE, !.stopAt = 0, !.stopRuns = 0,
                            !.answer = NoJson, !.spentPlanning = 0, !.spentRuns = 0,
                            !.made = 0, !.waited = 0, !.verdict = "none"]
    /\ UNCHANGED <<agentVars, observerVars, distillerVars>>

\* line 92: execute is called while a task is running, and throws
ExecuteRejected ==
    /\ task.isRunning
    /\ task.rejected < 1
    /\ task' = [task EXCEPT !.rejected = @ + 1]
    /\ UNCHANGED <<agentVars, observerVars, distillerVars>>

\* lines 111-120: planner.planTask returns a plan
PlanTask ==
    /\ task.phase = "plan"
    /\ \E answer \in env.answers, u \in env.usages :
        LET plannerTokens == task.plannerTokens + u
        IN  task' = [task EXCEPT !.phase = "loop",
                                 !.plan = PlanOf(answer, env.task, env.maxSubtasks),
                                 !.i = 0, !.failures = 0,
                                 !.plannerTokens = plannerTokens,
                                 !.totalTokens = @ + plannerTokens,
                                 !.answer = answer, !.spentPlanning = @ + u]
    /\ UNCHANGED <<agentVars, observerVars, distillerVars>>

\* planner.planTask throws: the catch block of lines 213-221 and the finally block
PlanFault ==
    /\ task.phase = "plan"
    /\ task' = [task EXCEPT !.phase = "idle", !.isRunning = FALSE, !.currentTaskId = 0,
                            !.retries = NoRetries, !.returned = "error",
                            !.resultTokens = task.totalTokens]
    /\ UNCHANGED <<agentVars, observerVars, distillerVars>>

\* lines 125-133: the loop test, the two break tests and the first
\* executeSubTask of executeSubtaskWithRetry
SubtaskLoop ==
    /\ task.phase = "loop"
    /\ IF \/ task.i >= Len(task.plan)
          \/ task.shouldStop
          \/ task.totalSteps >= MaxTotalSteps
       THEN /\ task' = Finished(task)
            /\ UNCHANGED agentVars
       ELSE /\ task' = [task EXCEPT !.phase = "sub", !.attempt = 0, !.retrying = FALSE,
                                    !.runs = @ + 1, !.made = 1, !.waited = 0,
                                    !.verdict = "none"]
            /\ StartSubTask(task.plan[task.i + 1].subtask)
    /\ UNCHANGED <<observerVars, distillerVars>>

\* ErrorHandler.classify, lines 129-159 of ErrorHandler.ts: retryable when the
\* message matches one of the patterns and the context was retried less
\* than maxRetries times
Retryable(matches, retries) == matches /\ retries < env.maxRetries

\* whether the message of a failed result can match one of ERROR_PATTERNS:
\* the no-progress and max-steps messages are fixed texts that match none, the
\* others carry the text of a thrown error or of the decision-maker
MayMatch(code) ==
    IF code \in {"NO_PROGRESS", "MAX_STEPS_EXCEEDED"} THEN {FALSE} ELSE BOOLEAN

RECURSIVE Pow(_, _)
Pow(base, e) == IF e = 0 THEN 1 ELSE base * Pow(base, e - 1)

\* faulty variant: the delay grows by the multiplier each time, not by its power
BackoffLinear(attempt) == BackoffMs * BackoffMultiplier * (attempt - 1)

\* lines 232-235: the delay before attempt number `attempt` (attempt > 0)
Backoff(attempt) == BackoffMs * Pow(BackoffMultiplier, attempt - 1)

\* lines 229-245: executeSubtaskWithRetry after an executeSubTask has returned
AttemptReturn ==
    /\ task.phase = "sub"
    /\ pc = "done"
    /\ LET id == subtask.id
           folded == [task EXCEPT !.executed = @ + calls.execute]
       IN  IF result.success
           THEN /\ task' = [folded EXCEPT !.phase = "after", !.verdict = "success"]
                /\ UNCHANGED agentVars
           ELSE \E matches \in MayMatch(result.code) :
                IF ~Retryable(matches, task.retries[id])
                THEN /\ task' = [folded EXCEPT !.phase = "after", !.verdict = "final"]
                     /\ UNCHANGED agentVars
                ELSE IF task.attempt + 1 <= env.maxRetries
                THEN /\ task' = [folded EXCEPT !.retries[id] = @ + 1,
                                               !.attempt = @ + 1, !.runs = @ + 1,
                                               !.made = @ + 1,
                                               !.waited = Backoff(task.attempt + 1),
                                               !.verdict = "retry"]
                     /\ StartSubTask(subtask)
                ELSE /\ task' = [folded EXCEPT !.retries[id] = @ + 1, !.phase = "after",
                                               !.verdict = "exhausted"]
                     /\ UNCHANGED agentVars
    /\ UNCHANGED <<observerVars, distillerVars>>

\* isCriticalSubtaskFailure, lines 249-286
IsCriticalSubtaskFailure(item, r, subtaskIndex, totalSubtasks) ==
    \/ subtaskIndex = 0
    \/ item.priority = "high"
    \/ r.code \in {"NO_PROGRESS", "MODEL_REPORTED_FAILURE", "CONSECUTIVE_FAILURES"}
    \/ 2 * subtaskIndex < totalSubtasks /\ ~r.success

\* lines 134-194: what execute does with the result of executeSubtaskWithRetry
SubtaskDone ==
    /\ task.phase = "after"
    /\ LET r == result
           item == task.plan[task.i + 1]
           got == [task EXCEPT !.results = Append(@, r.success),
                               !.totalSteps = @ + Len(r.steps),
                               !.totalTokens = @ + r.tokensUsed,
                               !.spentRuns = @ + calls.tokens]
           next == [got EXCEPT !.phase = "loop", !.i = @ + 1, !.retrying = FALSE]
       IN  IF task.retrying
           THEN /\ task' = IF r.success THEN [next EXCEPT !.failures = 0]
                           ELSE Finished(got)
                /\ UNCHANGED agentVars
           ELSE IF r.success
           THEN /\ task' = [next EXCEPT !.failures = 0]
                /\ UNCHANGED agentVars
           ELSE LET failed == [got EXCEPT !.failures = @ + 1]
                IN  IF \/ IsCriticalSubtaskFailure(item, r, task.i, Len(task.plan))
                       \/ failed.failures >= 2
                    THEN /\ task' = Finished(failed)
                         /\ UNCHANGED agentVars
                    ELSE \E threw \in BOOLEAN, rec \in Recoveries, u \in env.usages :
                         LET asked == IF threw THEN failed
                                      ELSE [failed EXCEPT !.plannerTokens = @ + u]
                         IN  IF threw \/ rec.strategy = "abort"
                             THEN /\ task' = Finished(asked)
                                  /\ UNCHANGED agentVars
                             ELSE IF rec.strategy = "retry" /\ rec.modified
                             THEN /\ task' = [asked EXCEPT !.phase = "sub", !.attempt = 0,
                                                  !.retrying = TRUE, !.runs = @ + 1,
                                                  !.made = 1, !.waited = 0,
                                                  !.verdict = "none"]
                                  /\ StartSubTask(item.subtask)
                             ELSE /\ task' = [asked EXCEPT !.phase = "loop", !.i = @ + 1]
                                  /\ UNCHANGED agentVars
    /\ UNCHANGED <<observerVars, distillerVars>>

\* line 353: stop()
Stop ==
    /\ task' = [task EXCEPT !.shouldStop = TRUE,
                            !.stopped = @ \/ task.isRunning,
                            !.stopAt = IF task.isRunning /\ ~task.stopped
                                       THEN Started ELSE @,
                            !.stopRuns = IF task.isRunning /\ ~task.stopped
                                         THEN task.runs ELSE @]
    /\ UNCHANGED <<agentVars, observerVars, distillerVars>>

\* execute() up to the plan
NextPlanner ==
    \/ Execute
    \/ PlanTask
    \/ PlanFault

\* execute() calls one after another, none of them stopped, with subtask runs
\* too short for the stagnation check
NextSession ==
    \/ Execute
    \/ ExecuteRejected
    \/ PlanTask
    \/ PlanFault
    \/ SubtaskLoop
    \/ AttemptReturn
    \/ SubtaskDone
    \/ Precheck
    \/ DistillFault
    \/ DecideFault
    \/ DoneStep
    \/ FailStep
    \/ ActFault
    \/ ActStep

NextTask ==
    \/ Execute
    \/ PlanTask
    \/ PlanFault
    \/ SubtaskLoop
    \/ AttemptReturn
    \/ SubtaskDone
    \/ Stop
    \/ Precheck
    \/ DistillFault
    \/ NoProgress
    \/ DecideFault
    \/ DoneStep
    \/ FailStep
    \/ ActFault
    \/ ActStep

Init == InitIn(EnvWide) /\ ObserverInit /\ DistillerIdle /\ TaskIdle

InitDeep == InitIn(EnvDeep) /\ ObserverInit /\ DistillerIdle /\ TaskIdle

InitMode == InitIn(EnvMode) /\ ObserverInit /\ DistillerIdle /\ TaskIdle

InitFail == InitIn(EnvFail) /\ ObserverInit /\ DistillerIdle /\ TaskIdle

InitUrl == InitIn(EnvUrl) /\ ObserverInit /\ DistillerIdle /\ TaskIdle

InitContext == InitIn(EnvDeep) /\ ObserverInit /\ DistillerIdle /\ TaskIdle

InitDistiller == InitIn(EnvDeep) /\ ObserverInit /\ DistillerInit /\ TaskIdle

\* a WebAgent after construction: not running, no executeSubTask in progress
InitTaskIn(e) ==
    /\ env = e
    /\ subtask \in e.subtasks
    /\ chosenMode = "none"
    /\ pc = "done"
    /\ step = 0
    /\ steps = <<>>
    /\ retryCount = 0
    /\ consecutiveFailures = 0
    /\ sameStateCount = 0
    /\ lastStateHash = EmptyHash
    /\ actionHistory = <<>>
    /\ result = NoResult
    /\ calls = NoCalls
    /\ last = NoLast
    /\ prevFp = EmptyHash
    /\ fpChanged = FALSE
    /\ totalTokens = 0
    /\ tokensAtStart = 0
    /\ ObserverInit
    /\ DistillerIdle
    /\ TaskIdle

InitTask == InitTaskIn(EnvTask)

InitPlanner == InitTaskIn(EnvPlanner)

InitSession == InitTaskIn(EnvSession)

InitRetry == InitTaskIn(EnvRetry)

Spec == Init /\ [][Next]_vars

SpecDeep == InitDeep /\ [][Next]_vars

\* executeSubTask is one async function: each await resolves or rejects, so a
\* step that can be taken is taken
SpecLive == Init /\ [][Next]_vars /\ WF_vars(Next)

SpecMode == InitMode /\ [][Next]_vars

SpecFail == InitFail /\ [][Next]_vars

SpecUrl == InitUrl /\ [][Next]_vars

SpecContext == InitContext /\ [][NextContext]_vars

SpecObserver == InitDeep /\ [][NextObserver]_vars

SpecDistiller == InitDistiller /\ [][NextDistiller]_vars

SpecTask == InitTask /\ [][NextTask]_vars

SpecPlanner == InitPlanner /\ [][NextPlanner]_vars

SpecSession == InitSession /\ [][NextSession]_vars

SpecRetry == InitRetry /\ [][NextSession]_vars

----------------------------------------------------------------------------
(* Shorthands for the properties *)

Returned == pc = "done"

TypeOK ==
    /\ pc \in {"start", "loop", "done"}
    /\ step \in 0..env.maxStepsPerSubtask
    /\ Len(steps) <= env.maxStepsPerSubtask

NoProgressReturned == Returned /\ result.code = "NO_PROGRESS"

----------------------------------------------------------------------------
(* C1 *)

----------------------------------------------------------------------------
(* C2 *)

\* the scenario of C2: the subtask "Click search button", click{index:0} decided
\* on every turn, a page that never differs
C2_Scenario ==
    /\ subtask.id = "t1"
    /\ ~fpChanged
    /\ \A i \in DOMAIN actionHistory :
           /\ actionHistory[i].action = Click0.action
           /\ actionHistory[i].params = Click0.params
           /\ actionHistory[i].feedback # VerificationNote
    /\ last.decision \in {"none", "click"}

\* the scenario runs undisturbed: the precheck says no, nothing throws, every
\* click succeeds and no feedback carries a completion phrase
C2_Undisturbed ==
    /\ result.via # "precheck"
    /\ last.fault = "none"
    /\ \A i \in DOMAIN result.steps :
           /\ result.steps[i].success
           /\ result.steps[i].verbalFeedback = FbNothing

\* C2 as stated: the scenario ends in NO_PROGRESS with at least 4 steps.
C2_AtLeastFourSteps ==
    (Returned /\ C2_Scenario /\ C2_Undisturbed) =>
        (result.code = "NO_PROGRESS" /\ Len(result.steps) >= 4)

\* C2, amended: in the scenario no fourth click is ever executed, and the
\* undisturbed run returns success=false with NO_PROGRESS holding exactly 3
\* executed actions: the repeated click raises the stagnation counter together
\* with the unchanged fingerprint, so the check of the 4th iteration ends the run.
C2_ThreeSteps ==
    C2_Scenario =>
        /\ calls.execute <= 3
        /\ (Returned /\ C2_Undisturbed) =>
               /\ ~result.success
               /\ result.code = "NO_PROGRESS"
               /\ Len(result.steps) = 3
               /\ step = 3

\* C2 witness: the undisturbed scenario has returned.
C2_Witness ==
    /\ Returned
    /\ C2_Scenario
    /\ C2_Undisturbed
    /\ result.code = "NO_PROGRESS"

----------------------------------------------------------------------------
(* C3 *)

DoneRejected == last.path = "done" /\ last.verified # "yes"

\* C3 as stated: after a 'done' that the completion check does not confirm, the
\* run has not ended and the loop is at its next iteration.
C3_LoopGoesOn == DoneRejected => pc = "loop"

\* C3, amended: a 'done' that the completion check does not confirm never ends
\* the run as a success: the step appends exactly one failed verification note
\* to the attempt history, leaves steps unchanged, executes no action, and moves
\* to the next iteration if the step budget allows one; on the last budgeted
\* iteration the run ends there with MAX_STEPS_EXCEEDED.
C3_Rejected ==
    [][ DoneRejected' =>
          /\ actionHistory' = Append(actionHistory,
                 [action |-> "wait", params |-> <<>>, success |-> FALSE,
                  feedback |-> VerificationNote])
          /\ steps' = steps
          /\ calls'.execute = calls.execute
          /\ calls'.arm = calls.arm
          /\ step' = step + 1
          /\ IF step + 1 < env.maxStepsPerSubtask
             THEN pc' = "loop"
             ELSE /\ pc' = "done"
                  /\ ~result'.success
                  /\ result'.code = "MAX_STEPS_EXCEEDED"
                  /\ result'.steps = steps ]_vars

\* C3 witness: a rejected 'done' after which the loop is running again.
C3_Witness ==
    /\ DoneRejected
    /\ pc = "loop"
    /\ Len(steps) = 0
    /\ Len(actionHistory) = 1

----------------------------------------------------------------------------
(* C4 *)

\* C4 as stated: a success that rests on a completion claim (an explicit 'done'
\* or a positive heuristic probe) was confirmed by the independent completion
\* check in that step.
C4_Corroborated ==
    (Returned /\ result.success /\ result.via \in {"done", "completion"}) =>
        last.verified = "yes"

----------------------------------------------------------------------------
(* C5 *)

LoginNavigateChanged ==
    /\ Includes(ToLowerCase(subtask.description), <<"login">>)
    /\ last.path = "act"
    /\ last.executed
    /\ last.decision = "navigate"
    /\ last.postUrl # <<>>
    /\ last.postUrl # last.preUrl

\* C5: a navigate action of a subtask whose description contains "login",
\* after which the URL differs from the one before it, ends the run at once
\* with success=true, and no completion check runs for that action.
C5_LoginShortcut ==
    LoginNavigateChanged =>
        /\ Returned
        /\ result.success
        /\ result.code = "none"
        /\ last.completion = "none"
        /\ last.verified = "none"
        /\ calls.completion = Len(steps)

\* C5 witness: such a run, with an action recorded before the navigate.
C5_Witness ==
    /\ LoginNavigateChanged
    /\ Returned
    /\ Len(result.steps) = 1

----------------------------------------------------------------------------
(* C6 *)

ByShortcut == Returned /\ result.via = "shortcut"

UrlDiffers == last.postUrl # <<>> /\ last.postUrl # last.preUrl

Mentions(st, kws) ==
    \E kw \in kws : \/ Includes(ToLowerCase(st.description), kw)
                   \/ Includes(ToLowerCase(st.action), kw)

\* C6 as stated: the shortcut ends a run only if the URL differs and either the
\* subtask mentions submit/login/checkout/continue/confirm/navigate or the
\* executed action is a navigate.
C6_StatedKeywords ==
    ByShortcut =>
        /\ UrlDiffers
        /\ \/ Mentions(subtask, { <<"submit">>, <<"login">>, <<"checkout">>,
                                  <<"continue">>, <<"confirm">>, <<"navigate">> })
           \/ last.decision = "navigate"

\* C6, amended: the shortcut ends a run only if the URL after the action
\* differs from the URL before it and one of these holds: the subtask's
\* description or verb contains submit, login, signin, sign in, log in, signup,
\* register, checkout, proceed, continue, next, confirm or go to; the executed
\* action is a click and the description contains button or form; the executed
\* action is a navigate.  Every shortcut result is a success that leaves the
\* executed action out of steps.
C6_Shortcut ==
    ByShortcut =>
        /\ UrlDiffers
        /\ result.success
        /\ result.steps = steps
        /\ \/ Mentions(subtask, { <<"submit">>, <<"login">>, <<"signin">>,
                                  <<"sign", "in">>, <<"log", "in">>, <<"signup">>,
                                  <<"register">>, <<"checkout">>, <<"proceed">>,
                                  <<"continue">>, <<"next">>, <<"confirm">>,
                                  <<"go", "to">> })
           \/ /\ last.decision = "click"
              /\ \/ Includes(ToLowerCase(subtask.description), <<"button">>)
                 \/ Includes(ToLowerCase(subtask.description), <<"form">>)
           \/ last.decision = "navigate"

\* C6 witness: the shortcut taken by a click of "Click search button".
C6_Witness ==
    /\ ByShortcut
    /\ subtask.id = "t1"
    /\ last.decision = "click"

----------------------------------------------------------------------------
(* C7 *)

PrecheckSaysYes == last.path = "precheck" /\ last.verified = "yes"

----------------------------------------------------------------------------
(* C8 *)

RECURSIVE TrailingFailures(_)
TrailingFailures(s) ==
    IF s = <<>> \/ Last(s).success THEN 0
    ELSE 1 + TrailingFailures(SubSeq(s, 1, Len(s) - 1))

\* the executor has just reported its third failure in a row: the action of
\* this iteration failed, as did the two executed before it
ThirdFailureInARow ==
    /\ last.path = "act"
    /\ last.executed
    /\ last.fault \in {"none", "postDistill"}
    /\ ~last.execOk
    /\ IF last.completion = "none" /\ result.via = "shortcut"
       THEN TrailingFailures(steps) >= 2
       ELSE TrailingFailures(steps) >= 3

\* C8 as stated: three executed actions failing in a row end the run with
\* CONSECUTIVE_FAILURES.
C8_ThreeFailuresEnd ==
    ThirdFailureInARow => (Returned /\ result.code = "CONSECUTIVE_FAILURES")

\* C8, amended: the run ends with CONSECUTIVE_FAILURES exactly when the three
\* latest action results recorded in steps are failures; the failure counter is
\* the number of failures at the end of steps, so a recorded success resets it
\* and the loop never runs on with three; the stop is a returned result with
\* success=false.  (A failing action whose iteration ends by the implicit-
\* success shortcut is not recorded and ends the run as a success instead.)
C8_ConsecutiveFailures ==
    /\ consecutiveFailures = TrailingFailures(steps)
    /\ pc = "loop" => consecutiveFailures < 3
    /\ Returned =>
           /\ result.code = "CONSECUTIVE_FAILURES" <=> TrailingFailures(result.steps) >= 3
           /\ result.code = "CONSECUTIVE_FAILURES" =>
                  /\ ~result.success
                  /\ result.via = "failures"
                  /\ result.steps = steps
                  /\ TrailingFailures(result.steps) = 3

\* C8 witness: CONSECUTIVE_FAILURES after an earlier success reset the counter.
C8_Witness ==
    /\ Returned
    /\ result.code = "CONSECUTIVE_FAILURES"
    /\ Len(result.steps) = 4
    /\ result.steps[1].success

----------------------------------------------------------------------------
(* C9 *)

\* C9 as stated: whatever collaborator raised an exception in the latest step,
\* the run has returned success=false with ACTION_FAILED.
C9_EveryFaultConverted ==
    last.fault # "none" => (Returned /\ ~result.success /\ result.code = "ACTION_FAILED")

\* C9, amended: executeSubTask always returns a result; an exception raised by
\* the precheck or loop-top distill, by the LLM call of decideAction, by
\* executor.execute or by the observer becomes success=false with ACTION_FAILED
\* and the steps recorded up to the fault, and ACTION_FAILED has no other
\* cause.  An exception of the post-action distill is swallowed (the URL counts
\* as unchanged) and one inside the completion verification counts as "not
\* verified": neither produces ACTION_FAILED.
C9_Faults ==
    /\ last.fault \in {"distiller", "llm", "executor", "observer"} <=>
           (Returned /\ result.code = "ACTION_FAILED")
    /\ (Returned /\ result.code = "ACTION_FAILED") =>
           /\ ~result.success
           /\ result.steps = steps
           /\ result.errStep = Len(steps)
           /\ result.retryCount = retryCount
    /\ pc \in {"start", "loop", "done"}
    /\ Returned <=> result.code # "running"

\* C9 witness: a fault after one action was recorded.
C9_Witness ==
    /\ Returned
    /\ result.code = "ACTION_FAILED"
    /\ last.fault = "executor"
    /\ Len(result.steps) = 1

----------------------------------------------------------------------------
(* C10 *)

\* C10 as stated: a decision request that fails does not end the run: it is not
\* turned into an ACTION_FAILED result.
C10_CallFailureAbsorbed ==
    last.fault = "llm" => ~(Returned /\ result.code = "ACTION_FAILED")

\* C10, amended: when the decision answer cannot be parsed, the step goes on
\* with the action wait{duration: 1000}: it is the action armed for, executed
\* and, unless the step ends by the shortcut, recorded; the parse failure is no
\* fault and no terminal condition of its own.  When the decision call itself
\* fails, the run ends with ACTION_FAILED.
C10_ParseFallback ==
    /\ last.garbage =>
           /\ last.path = "act"
           /\ last.decision = Wait1000.action
           /\ last.fault \in {"none", "postDistill", "executor", "observer"}
           /\ (last.fault \in {"none", "postDistill"} /\ result.via # "shortcut") =>
                  /\ Last(steps).action = Wait1000.action
                  /\ Last(steps).params = Wait1000.params
                  /\ Last(actionHistory).action = Wait1000.action
                  /\ Last(actionHistory).params = Wait1000.params
    /\ last.fault = "llm" => (Returned /\ result.code = "ACTION_FAILED")

\* C10 witness: an unparsable answer, the wait executed, the loop running on.
C10_Witness ==
    /\ last.garbage
    /\ pc = "loop"
    /\ Last(steps).action = "wait"

----------------------------------------------------------------------------
(* C11 *)

\* the loop bound and what the iterations taken add up to
C11_Bounded ==
    /\ step <= env.maxStepsPerSubtask
    /\ pc = "loop" => (step < env.maxStepsPerSubtask /\ calls.decide = step)
    /\ calls.decide <= env.maxStepsPerSubtask
    /\ calls.execute <= calls.decide
    /\ Len(steps) <= calls.execute
    /\ Returned =>
           /\ result.code = "MAX_STEPS_EXCEEDED" <=> step = env.maxStepsPerSubtask
           /\ result.code = "MAX_STEPS_EXCEEDED" =>
                  /\ ~result.success
                  /\ result.via = "budget"
                  /\ result.steps = steps
                  /\ calls.decide = env.maxStepsPerSubtask

\* C11: whatever the decision backend, the executor and the page answer, the
\* run returns a result, after at most maxStepsPerSubtask loop iterations, at
\* most that many decisions and at most that many executed actions; a loop
\* that runs out without another terminal condition returns success=false
\* with MAX_STEPS_EXCEEDED.
C11_Terminates == []C11_Bounded /\ <>Returned

\* C11 witness: the budget ran out with every iteration executing an action.
C11_Witness ==
    /\ Returned
    /\ result.code = "MAX_STEPS_EXCEEDED"
    /\ calls.execute = env.maxStepsPerSubtask
    /\ Len(result.steps) = env.maxStepsPerSubtask

----------------------------------------------------------------------------
(* C12 *)

ErrorCodes == {"NO_PROGRESS", "MODEL_REPORTED_FAILURE", "CONSECUTIVE_FAILURES",
               "MAX_STEPS_EXCEEDED", "ACTION_FAILED"}

----------------------------------------------------------------------------
(* C13 *)

----------------------------------------------------------------------------
(* C14 *)

\* C14 as stated: whatever startObserving/stopObserving calls were made, at most
\* one capture is active, and after a stopObserving none is.
C14_OneCapture ==
    /\ liveObservers <= 1
    /\ obsLast.op = "stop" => liveObservers = 0

----------------------------------------------------------------------------
(* C15 *)

StoppedUnarmed == obsLast.op = "stop" /\ ~obsLast.hadState

\* C15: stopObserving with no window open (never armed, or disarmed already)
\* returns the empty report (no mutations, "No changes observed", urlChanged
\* and titleChanged false) whatever the page did meanwhile, and leaves the
\* observer un-armed.
C15_EmptyReport ==
    StoppedUnarmed =>
        /\ report = [mutations |-> <<>>,
                     verbalFeedback |-> <<"No", "changes", "observed">>,
                     urlChanged |-> FALSE, titleChanged |-> FALSE]
        /\ ~observer
        /\ state = NoState

\* C15 witness: a second stopObserving after a window was closed, on a page that
\* has moved since the window was armed.
C15_Witness ==
    /\ StoppedUnarmed
    /\ obsLast.armUrl # <<>>
    /\ obsLast.armUrl # document.url

----------------------------------------------------------------------------
(* C16 *)

\* a window was closed by the latest call
Stopped == obsLast.op = "stop" /\ obsLast.hadState

UrlMoved == document.url # obsLast.armUrl

TitleMoved == document.title # obsLast.armTitle

NavigationReport == FbNavigated \o <<Pathname(document.url)>>

\* C16 as stated: when the URL at disarm differs from the one at arm, the
\* report has urlChanged = true and its feedback is the navigation report.
C16_OnlyNavigation ==
    (Stopped /\ UrlMoved) =>
        (report.urlChanged /\ report.verbalFeedback = NavigationReport)

\* C16, amended: urlChanged is true exactly when the URL at disarm differs from
\* the one at the last arm; then the feedback begins with "Page navigated to
\* <path>" and carries no title phrase, and whatever else it reports (up to
\* three significant-element phrases, or else the count summary) follows the
\* navigation phrase after a ". ".
C16_NavigationFirst ==
    Stopped =>
        LET fb == report.verbalFeedback
        IN  /\ report.urlChanged <=> UrlMoved
            /\ UrlMoved =>
                   /\ Len(fb) >= Len(NavigationReport)
                   /\ SubSeq(fb, 1, Len(NavigationReport)) = NavigationReport
                   /\ Len(fb) > Len(NavigationReport) => fb[Len(NavigationReport) + 1] = "."
                   /\ ~Includes(fb, FbTitle)
            /\ ~UrlMoved => ~Includes(fb, FbNavigated)

\* C16 witness: a navigation reported together with a count summary.
C16_Witness ==
    /\ Stopped
    /\ UrlMoved
    /\ Includes(report.verbalFeedback, <<"elements", "added">>)

----------------------------------------------------------------------------
(* C17 *)

ShownPhrases == {p \in SignificantPhrases : Includes(report.verbalFeedback, p)}

Counted == CountOf(report.mutations, "added") + CountOf(report.mutations, "removed")
               + CountOf(report.mutations, "modified")

\* C17: the title phrase is in the feedback exactly when the title changed and
\* the URL did not; of the distinct significant-element phrases matched the
\* first 3 at most are included; the count summary is used exactly when no
\* significant phrase matched and something was added, removed or modified;
\* "No significant changes detected" is the feedback exactly when none of
\* these applies.
C17_Priority ==
    Stopped =>
        LET fb  == report.verbalFeedback
            sig == FindSignificantChanges(report.mutations)
        IN  /\ Includes(fb, FbTitle) <=> (TitleMoved /\ ~UrlMoved)
            /\ Cardinality(ShownPhrases) <= 3
            /\ Cardinality(ShownPhrases) = Min(3, Len(sig))
            /\ \A p \in ShownPhrases : \E i \in 1..Min(3, Len(sig)) : sig[i] = p
            /\ Includes(fb, <<"elements">>) <=> (sig = <<>> /\ Counted > 0)
            /\ fb = <<"No", "significant", "changes", "detected">> <=>
                   (~UrlMoved /\ ~TitleMoved /\ sig = <<>> /\ Counted = 0)

\* C17 witness: four distinct phrases matched, three reported.
C17_Witness ==
    /\ Stopped
    /\ Len(FindSignificantChanges(report.mutations)) > 3
    /\ Cardinality(ShownPhrases) = 3

----------------------------------------------------------------------------
(* C18 *)

\* C18: the change list of a report holds each (kind, target) pair, and for
\* attribute changes each (kind, target, attribute) triple, at most once,
\* however often the raw events repeat.
C18_Deduplicated ==
    Stopped =>
        \A i, j \in DOMAIN report.mutations :
            i # j =>
                LET a == report.mutations[i]
                    b == report.mutations[j]
                IN  ~ /\ a.type = b.type
                      /\ a.target = b.target
                      /\ a.type = "modified" => a.description[1] = b.description[1]

\* C18 witness: the same raw event twice in one window, reported once.
C18_Witness ==
    /\ Stopped
    /\ Len(obsLast.events) = 2
    /\ obsLast.events[1] = obsLast.events[2]
    /\ Len(report.mutations) = 1

----------------------------------------------------------------------------
(* C19 *)

Distilled == dstLast.op = "distill"

IndexesOf(entries) == {entries[i].index : i \in DOMAIN entries}

\* C19: the index values of the N entries of the view returned by a distill
\* call, in any mode, by either distiller, on the first call or a later one,
\* are pairwise distinct and are exactly 0..N-1.
C19_IndexDense ==
    Distilled =>
        /\ IndexesOf(view.entries) = 0..(Len(view.entries) - 1)
        /\ Cardinality(IndexesOf(view.entries)) = Len(view.entries)
        /\ Len(elementMap) = Len(view.entries)

\* C19 witness: a second distill on the same distiller whose view, sorted by
\* position, no longer lists the indexes in ascending order.
C19_Witness ==
    /\ Distilled
    /\ dstLast.calls = 2
    /\ distiller = "dom"
    /\ Len(view.entries) = 3
    /\ view.entries[1].index = 2

----------------------------------------------------------------------------
(* C20 *)

\* C20 as stated: the view of a distill call never holds more entries than the
\* cap of its mode (text 500, input-focused 200, interactive 300).
C20_Capped ==
    Distilled => Len(view.entries) <= MaxElements(view.mode)

----------------------------------------------------------------------------
(* C21 *)

TextDistilled == Distilled /\ dstLast.ran = "text_only"

\* C21 as stated: text-mode distillation of a document with more eligible text
\* elements than the cap yields exactly cap entries, in the document order of
\* their source elements.
C21_ExactlyCapInOrder ==
    (TextDistilled /\ dstLast.eligible > MaxElements("text_only")) =>
        /\ Len(view.entries) = MaxElements("text_only")
        /\ \A i \in 1..(Len(view.entries) - 1) :
               view.entries[i].src < view.entries[i + 1].src

----------------------------------------------------------------------------
(* C22 *)

\* C22 as stated: no entry of a text-mode view has the text of an earlier
\* entry of the same view.
C22_NoDuplicateText ==
    TextDistilled =>
        \A i, j \in DOMAIN view.entries :
            i < j => view.entries[i].content # view.entries[j].content

----------------------------------------------------------------------------
(* C23 *)

\* C23 as stated: in interactive mode no entry has a role that is neither an
\* interactive role nor a landmark role, whichever distiller produced the view.
C23_NoForeignRole ==
    (Distilled /\ dstLast.ran = "all_fields") =>
        \A i \in DOMAIN view.entries :
            \/ view.entries[i].role = ""
            \/ view.entries[i].role \in InteractiveRoles \cup LandmarkRoles

----------------------------------------------------------------------------
(* C24 *)

\* C24 as stated: until the next distill, the index of every entry of the view
\* resolves to the element the entry was extracted from, also after the view
\* was sorted by position.
C24_IndexResolves ==
    Distilled =>
        \A i \in DOMAIN view.entries :
            Resolve(view.entries[i].index, elementMap, page, distiller)
                = view.entries[i].src

----------------------------------------------------------------------------
(* C25 *)

\* the order of the statement: `for` reference, wrapping label, aria-label, title
StatedLabel(el) ==
    IF el.id # "" /\ el.forLabel # "" THEN el.forLabel
    ELSE IF el.wrapLabel # "" THEN el.wrapLabel
    ELSE IF el.ariaLabel # "" THEN el.ariaLabel
    ELSE el.title

\* C25 as stated: in input-focused mode the label of an entry is the first of
\* the `for`-associated label, the wrapping label, aria-label and title that
\* its element has.
C25_LabelOrder ==
    (Distilled /\ dstLast.ran = "input_fields" /\ distiller = "dom") =>
        \A i \in DOMAIN view.entries :
            view.entries[i].label = StatedLabel(page[view.entries[i].src])

----------------------------------------------------------------------------
(* C26 *)

\* the order of the statement: id, test attribute, name (form elements), path
StatedLocator(el, doc) ==
    IF el.id # "" THEN Locator("id", "", el.id, 0)
    ELSE IF el.testid # "" THEN Locator("testid", "", el.testid, 0)
    ELSE IF el.name # "" /\ el.tag \in {"input", "select", "textarea", "button"}
    THEN Locator("name", el.tag, el.name, 0)
    ELSE PathTo(el, doc)

\* C26 as stated: the locator of every entry is its element's id, else its
\* test attribute, else (form elements) its name, else the structural path;
\* nothing else is preferred.
C26_LocatorPreference ==
    (Distilled /\ dstLast.ran # "text_only") =>
        \A i \in DOMAIN view.entries :
            view.entries[i].selector
                = StatedLocator(page[view.entries[i].src], page)

----------------------------------------------------------------------------
(* C27 *)

\* the routing of the statement
StatedMode(st) ==
    LET action == ToLowerCase(st.action)
    IN  IF \E w \in {"type", "fill", "select", "login", "search"} : Includes(action, <<w>>)
        THEN "input_fields"
        ELSE IF \E w \in {"read", "extract", "verify", "find"} : Includes(action, <<w>>)
        THEN "text_only"
        ELSE "all_fields"

\* C27 as stated: every distill call of a run gets the mode that the verb
\* selects: input-focused for type/fill/select/login/search, text for
\* read/extract/verify/find, interactive for any other verb.
C27_StatedVerbs ==
    calls.distill > 0 => calls.modes = {StatedMode(subtask)}

\* the routing of the code, verb by verb
RoutedMode(st) ==
    LET action == ToLowerCase(st.action)
    IN  IF \E w \in {"type", "fill", "input", "select", "check", "login", "signup",
                     "search"} : Includes(action, <<w>>)
        THEN "input_fields"
        ELSE IF \E w \in {"read", "extract", "get", "find", "verify"} :
                    Includes(action, <<w>>)
        THEN "text_only"
        ELSE "all_fields"

\* C27, amended: the mode is a function of the lower-cased verb: input-focused
\* if it contains type, fill, input, select, check, login, signup or search;
\* otherwise text if it contains read, extract, get, find or verify; otherwise
\* interactive.  It is chosen once, and every distill call of the run gets it.
C27_ModeByVerb ==
    /\ chosenMode \in {"none", RoutedMode(subtask)}
    /\ calls.distill > 0 =>
        /\ chosenMode = RoutedMode(subtask)
        /\ calls.modes = {chosenMode}

\* C27 witness: a run on the verb of both lists has distilled before, at the
\* top of and after an action, each time in input-focused mode.
C27_Witness ==
    /\ subtask.action = <<"check">>
    /\ calls.distill >= 3
    /\ calls.execute >= 1
    /\ calls.modes = {"input_fields"}

----------------------------------------------------------------------------
(* C28 *)

\* the latest iteration sent a decision request
Decided == last.path \in {"decide", "done", "fail", "act"}

\* C28: a decision request carries the budget warning if and only if the loop
\* iterations already used are at least 75% of maxStepsPerSubtask, and the
\* remaining-step count of the warning is maxStepsPerSubtask minus the
\* iterations used.
C28_BudgetWarning ==
    Decided =>
        /\ last.warned <=> 4 * last.atStep >= 3 * env.maxStepsPerSubtask
        /\ last.remaining = env.maxStepsPerSubtask - last.atStep

\* C28 witness: the request of the last iteration of the budget carries the
\* warning with one step remaining, after a run in which not every iteration
\* executed an action.
C28_Witness ==
    /\ Decided
    /\ last.warned
    /\ last.remaining = 1
    /\ last.atStep = env.maxStepsPerSubtask - 1
    /\ Len(steps) < last.atStep

----------------------------------------------------------------------------
(* C29 *)

\* the latest iteration executed an action and recorded the attempt
Attempted ==
    /\ last.path = "act"
    /\ last.fault \in {"none", "postDistill"}
    /\ result.via # "shortcut"

\* the attempt recorded last equals one of the three attempts before it
PriorMatch ==
    \E i \in DOMAIN actionHistory :
        /\ i < Len(actionHistory)
        /\ i >= Len(actionHistory) - 3
        /\ actionHistory[i].action = Last(actionHistory).action
        /\ actionHistory[i].params = Last(actionHistory).params

\* C29: a proposed action is flagged exactly if it equals, in type and
\* parameters, one of the last 3 attempts; flagged or not it is executed in
\* that iteration, and the flag raises the stagnation counter by one (a page
\* change after the action still resets the counter).
C29_FlaggedNotBlocked ==
    Attempted =>
        /\ last.dup <=> PriorMatch
        /\ last.executed
        /\ sameStateCount =
              IF UrlDiffers THEN 0
              ELSE IF last.dup THEN last.checkedCount + 1
              ELSE last.checkedCount

\* C29 witness: an action that repeats the attempt before the previous one is
\* flagged, executed, and counted.
C29_Witness ==
    /\ Attempted
    /\ last.dup
    /\ last.executed
    /\ ~UrlDiffers
    /\ sameStateCount = last.checkedCount + 1
    /\ Len(actionHistory) >= 3
    /\ actionHistory[Len(actionHistory) - 1].action # Last(actionHistory).action

----------------------------------------------------------------------------
(* C30 *)

\* C30: after stop() is called while a task is executing, the action in
\* flight may finish (at most one action more is started), and no further
\* action is started before execute() returns.
C30_NoActionAfterStop ==
    task.stopped => Started <= task.stopAt + 1

----------------------------------------------------------------------------
(* C31 *)

\* the latest iteration executed an action that failed with this error
FailedWith(messages) ==
    /\ last.path = "act"
    /\ last.executed
    /\ ~last.execOk
    /\ last.error.message \in messages

\* C31: an action failure caused by validation (bad parameters) and an
\* explicit fail of the model end the run in the same step; an action failure
\* with a recoverable element error (not found, not visible) does not end it.
C31_NonRecoverableTerminates ==
    /\ FailedWith({InvalidMsg}) => Returned /\ ~result.success
    /\ last.path = "fail" => Returned /\ ~result.success
    /\ FailedWith({NotFoundMsg, NotVisibleMsg}) => ~Returned

----------------------------------------------------------------------------
(* C33 *)

\* execute() holds the plan planTask returned
Planned == task.phase = "loop"

\* the answer is no JSON, no array, or an array without an item that is an
\* object with a non-empty description and a non-empty action
NoValidSubtask(answer) ==
    \/ ~answer.parsable
    \/ ~answer.isArray
    \/ \A k \in DOMAIN answer.items :
          \/ ~answer.items[k].isObj
          \/ answer.items[k].description = <<>>
          \/ answer.items[k].action = <<>>

\* C33: the plan planTask returns holds at least one and at most maxSubtasks
\* subtasks whatever the LLM answers, and when the answer is not valid JSON or
\* yields no valid subtask the plan is the single fallback subtask with action
\* navigate and the user's task text as description.
C33_PlanBounded ==
    Planned =>
        /\ Len(task.plan) >= 1
        /\ Len(task.plan) <= env.maxSubtasks
        /\ NoValidSubtask(task.answer) =>
              /\ Len(task.plan) = 1
              /\ task.plan[1].subtask.action = <<"navigate">>
              /\ task.plan[1].subtask.description = env.task

\* C33 witness: an array of items none of which is a valid subtask gives the
\* fallback plan.
C33_Witness ==
    /\ Planned
    /\ task.answer.parsable
    /\ task.answer.isArray
    /\ Len(task.answer.items) > env.maxSubtasks
    /\ NoValidSubtask(task.answer)
    /\ task.plan = Fallback(UserTask)

----------------------------------------------------------------------------
(* C32 *)

\* C32: the token counter of the BrowserNavigationAgent never decreases, over
\* every step of every run and task, and the tokensUsed of a returned
\* SubTaskResult is the increase of the counter since the start of its run,
\* which is what the LLM calls of that run used.
C32_TokensAccumulate ==
    [][/\ totalTokens' >= totalTokens
       /\ (pc # "done" /\ pc' = "done") =>
             /\ result'.tokensUsed = totalTokens' - tokensAtStart
             /\ result'.tokensUsed = calls'.tokens]_vars

\* C32 witness: a run of the second task, started with a counter above zero,
\* has returned a result whose LLM calls used tokens.
C32_Witness ==
    /\ pc = "done"
    /\ task.phase = "sub"
    /\ task.executes = 2
    /\ tokensAtStart > 0
    /\ result.tokensUsed > 0
    /\ result.tokensUsed = totalTokens - tokensAtStart

----------------------------------------------------------------------------
(* C39 *)

\* execute() has returned a TaskResult built from the subtask results
Reported == ~task.isRunning /\ task.returned \in {"success", "failure"}

\* C39: the totalTokens of a returned TaskResult is what the LLM calls of that
\* execute() used for planning and for the subtask runs it reports, also for
\* the second task of the same WebAgent.
C39_TotalTokens ==
    Reported => task.resultTokens = task.spentPlanning + task.spentRuns

----------------------------------------------------------------------------
(* C34 *)

\* an executeSubTask called by executeSubtaskWithRetry has returned
AttemptOver == task.phase = "sub" /\ pc = "done"

\* C34: executeSubtaskWithRetry runs the subtask at most maxRetries + 1 times;
\* before the k-th retry it waits backoffMs * backoffMultiplier^(k-1); it
\* starts a further attempt only after a failure that was classified as
\* retryable; and it returns the result of the last attempt made.
C34_RetryWithBackoff ==
    [][/\ task'.made <= env.maxRetries + 1
       /\ (AttemptOver /\ pc' = "start") =>
             /\ ~result.success
             /\ task'.verdict = "retry"
             /\ task'.made = task.made + 1
             /\ task'.waited = BackoffMs * Pow(BackoffMultiplier, task'.made - 2)
       /\ (AttemptOver /\ (result.success \/ task'.verdict = "final")) =>
             pc' = "done"
       /\ (AttemptOver /\ task'.phase = "after") => result' = result]_vars

\* C34 witness: the second retry, made after a wait of backoffMs * 2, has
\* failed too, and its result is the one handed back.
C34_Witness ==
    /\ task.phase = "after"
    /\ task.made = env.maxRetries + 1
    /\ task.made = 3
    /\ task.waited = BackoffMs * BackoffMultiplier
    /\ ~result.success

----------------------------------------------------------------------------
(* C38 *)

\* C38: an execute() starts only while none is running; an execute() called
\* while one is running is rejected and leaves the running flag, the stop flag
\* and the current task id as they are; and whenever an execute() that started
\* is over, by a result or by an exception, isActive() is false and
\* getCurrentTaskId() is null (0 here).
C38_OneExecute ==
    [][/\ task'.executes > task.executes => ~task.isRunning /\ task'.isRunning
       /\ task'.rejected > task.rejected =>
             /\ task.isRunning
             /\ task'.isRunning = task.isRunning
             /\ task'.shouldStop = task.shouldStop
             /\ task'.currentTaskId = task.currentTaskId
             /\ task'.phase = task.phase
       /\ task'.returned # "none" => ~task'.isRunning /\ task'.currentTaskId = 0
       /\ task'.isRunning => task'.currentTaskId = task'.executes]_vars

\* C38 witness: the second execute() of a WebAgent, during which a further
\* execute() was rejected, has ended by an exception.
C38_Witness ==
    /\ task.executes = 2
    /\ task.rejected = 1
    /\ task.returned = "error"
    /\ ~task.isRunning
    /\ task.currentTaskId = 0

----------------------------------------------------------------------------
(* C40 *)

\* C40: when executeSubTask has returned, the steps of its result are as many
\* as the actions that were sent to the executor during the run (each executed
\* action is one entry).
C40_EveryActionAStep ==
    Returned => Len(result.steps) = calls.execute

----------------------------------------------------------------------------
(* C35 *)

\* the latest iteration ended the run by checkCompletion, and not by a phrase
\* of the feedback: by the URL heuristic
CompletedByUrl ==
    /\ Returned
    /\ last.path = "act"
    /\ last.completion = "yes"
    /\ last.fault = "none"
    /\ ~\E p \in CompletionPhrases :
           Includes(ToLowerCase(Last(result.steps).verbalFeedback), p)

\* C35: a run is completed by the URL heuristic only if the verification hint
\* of the subtask mentions the URL, the subtask supplies a fragment, and the
\* fragment occurs in the URL of the page after the last executed action.
C35_UrlAfterAction ==
    CompletedByUrl =>
        /\ Includes(ToLowerCase(subtask.verification), <<"url">>)
        /\ subtask.value # <<>>
        /\ Includes(last.postUrl, subtask.value)

----------------------------------------------------------------------------
(* C36 *)

\* C36: in an input-focused view of DOMDistiller every index of a form's
\* fieldIndices is the index of an entry of that view whose element lies
\* inside the form, and getElement of the index gives an element inside it.
C36_FieldIndices ==
    (distiller = "dom" /\ view.mode = "input_fields") =>
        \A f \in DOMAIN view.forms :
            \A k \in DOMAIN view.forms[f].fieldIndices :
                LET idx == view.forms[f].fieldIndices[k]
                IN  /\ \E i \in DOMAIN view.entries :
                           /\ view.entries[i].index = idx
                           /\ page[view.entries[i].src].inForm
                    /\ Resolve(idx, elementMap, page, distiller) # 0
                    /\ page[Resolve(idx, elementMap, page, distiller)].inForm

----------------------------------------------------------------------------
(* C37 *)

\* C37: an action executed after a distill that ran between its decision and
\* its execution acts on the element that carried the chosen index in the view
\* the decision was made from.
C37_ActsOnDecidedElement ==
    (pending.phase = "acted" /\ pending.between) => pending.acted = pending.target

====
